---- MODULE Spec2Model ----
(***************************************************************************)
(* The relational clustering and temporal-correlation engine of            *)
(* decoupled-multimodal-learning: the relationship store (db/), the        *)
(* prototype nodes, clusters and node managers (modules/cortex/) and the   *)
(* convergence-divergence zone (modules/cdz/).                             *)
(*                                                                         *)
(* Floats are fixed-point integers: a weight, a certainty and a packet     *)
(* strength w is the integer w * ONE, rounded to the nearest unit.         *)
(* Positions and encodings are one-dimensional integers.                   *)
(* Nodes and clusters are named by the integer their name generator        *)
(* issued; a cluster made for a node carries the node's number.            *)
(*                                                                         *)
(* A Python exception ends the call that raised it and leaves what was     *)
(* already written: every operator takes and returns a "world" record      *)
(* whose field error is NoErr or the exception raised, and an operator     *)
(* applied to a world with an error returns it unchanged.                  *)
(***************************************************************************)
EXTENDS Integers, Sequences, FiniteSets, TLC

\* ------------------------------------------------------------- bounds
\* The cortices (modalities) of the brain.
Streams == {1, 2}
\* The encodings an autoencoder hands over (multiples of 12: the running
\* means of up to four of them are whole numbers).
Encodings == {0, 300}
\* Node (and cluster) names issued over a run.
MaxIds == 4
\* The last timestep.
MaxTime == 1
\* Calls of receive_encoding over a run.
MaxEvents == 4
\* Calls of the maintenance entry points (cleanup, create_new_nodes) over a run.
MaxMaintenance == 1
\* Direct calls of the store's strength and relation methods over a run.
MaxStoreCalls == 2
\* The amount (0.05) and the position of a direct call on the whole store.
StoreAmount == 50
StorePosition == 0
\* Direct adjust calls with varied amounts and positions over a run.
MaxEdgeCalls == 3
\* Nodes (each with its cluster) added by direct calls over a run.
MaxStoreNodes == 3
\* The items and related items of a table called directly.
MaxItems == 2
\* Direct calls of add_related_item and increase_relationship_strength on
\* one table over a run.
MaxTableCalls == 3
\* The last timestep, the maintenance calls and the encoding of a run over
\* a longer clock.
MaxCareTime == 2
MaxCareMaintenance == 2
CareEncoding == 0
\* The events and the names of a run in which the cortices grow.
MaxGrowEvents == 5
MaxGrowIds == 7

\* The two normalizations called directly: the weights of a set, the size
\* of a set and the calls of a run.
MaxWeights == 2
MaxNormalizeCalls == 2
Weighings == {0 - 500, 0, 250, 500}
\* Direct calls of the CDZ's _update_connection over a run.
MaxConnectCalls == 2
\* Feedback packets delivered directly over a run, the encodings received
\* in that run, and the strengths of the packets ((1 + certainty_factor) ** 2
\* lies between 1 and 4).
MaxFeedbackCalls == 1
MaxFeedbackEvents == 3
FeedbackStrengths == {1000, 4000}
\* The amounts a direct call adjusts a strength by (0.05 and 0.2).
Amounts == {50, 200}

\* ---------------------------------------------------------- constants
\* 1.0 in fixed point.
ONE == 1000
\* Python's None, for a timestep, a position, a node.
None == -1
NoErr == "none"

\* config.py. The population caps, the utilisation thresholds, NODE_IS_NEW,
\* the split quota and the correlation window are scaled down so that a
\* short run reaches them; the rates keep the values of config.py, in
\* fixed point.
MAX_NODES == 3
INITIAL_NODES == 2
CLUSTER_REQUIRED_UTILIZATION == 1
NODE_REQUIRED_UTILIZATION == 2
CLUSTER_NODE_LEARNING_RATE == 20
NODE_TO_CLUSTER_LEARNING_RATE == 50
\* NODE_POSITION_LEARNING_RATE = 0.04, as a percentage
NODE_POSITION_LEARNING_RATE == 4
\* NODE_POSITION_MOMENTUM_DECAY = 0.5, as a percentage
NODE_POSITION_MOMENTUM_DECAY == 50
NODE_POSITION_MOMENTUM_ALPHA == 0
NODE_IS_NEW == 1
NODE_CERTAINTY_AGE_FACTOR == NODE_IS_NEW
CE_CERTAINTY_AGE_FACTOR == NODE_CERTAINTY_AGE_FACTOR
NODE_SPLIT_MAX_CORRELATION_VARIANCE == 5
NODE_SPLIT_MAX_QTY == 2
\* the literal 3 of create_new_nodes: an edge seen more often spawns a node
SPLIT_MIN_COUNT == 3
NRND_OPTIMIZER_ENABLED == TRUE
\* the literal 1000 of build_nrnd_index
NRND_MIN_DISTANCE_COUNT == 1
CE_LEARNING_RATE == 20
CE_CORRELATION_WINDOW_MAX == 2

VARIABLES
    nodes,                  \* Database.nodes: the names in the table
    clusters,               \* Database.clusters
    nodes_to_clusters,      \* OneToManyTable.data, node -> entry
    clusters_to_nodes,      \* OneToManyTable.data, cluster -> entry
    node_manager_to_nodes,  \* OneToManyTable.data, cortex -> entry
    node_objs,              \* every Node object made, live or not
    cluster_objs,           \* every Cluster object made
    node_managers,          \* the NodeManager of each cortex
    correlations,           \* CDZ.correlations
    packet_queue,           \* CDZ.packet_queue, newest first
    ignore_gaussian,        \* config.CE_IGNORE_GAUSSIAN, fixed at start
    timestep,               \* brain.timestep
    name_counter,           \* the next name the generator issues
    error,                  \* the exception that ended the last call
    \* what has happened so far, kept for the bounds and the properties
    received,               \* receive_encoding calls of each cortex
    maintenance,            \* maintenance calls
    feedback_received,      \* feedback packets handed to each node
    store_calls,            \* direct calls of the store's methods
    adjust_log              \* per edge, the positions of its direct adjust calls

vars == <<nodes, clusters, nodes_to_clusters, clusters_to_nodes,
          node_manager_to_nodes, node_objs, cluster_objs, node_managers,
          correlations, packet_queue, ignore_gaussian, timestep,
          name_counter, error, received, maintenance, feedback_received,
          store_calls, adjust_log>>

\* ------------------------------------------------------------ helpers
Raise(w, e) == IF w.error # NoErr THEN w ELSE [w EXCEPT !.error = e]

Put(f, k, v) == [x \in DOMAIN f \cup {k} |-> IF x = k THEN v ELSE f[x]]

Drop(f, k) == [x \in DOMAIN f \ {k} |-> f[x]]

InSeq(x, s) == \E i \in 1..Len(s) : s[i] = x

\* list.index(x): the first place of x
IndexOf(x, s) == CHOOSE i \in 1..Len(s) : s[i] = x /\ \A j \in 1..(i - 1) : s[j] # x

RemoveAt(s, i) == [j \in 1..(Len(s) - 1) |-> IF j < i THEN s[j] ELSE s[j + 1]]

RECURSIVE SumSeq(_)
SumSeq(s) == IF Len(s) = 0 THEN 0 ELSE Head(s) + SumSeq(Tail(s))

MaxOf(s) == CHOOSE m \in {s[i] : i \in 1..Len(s)} : \A i \in 1..Len(s) : s[i] <= m

\* np.argmax / max(key=...): the first place of the largest value
ArgMax(s) == CHOOSE i \in 1..Len(s) :
                /\ \A j \in 1..Len(s) : s[j] <= s[i]
                /\ \A j \in 1..(i - 1) : s[j] < s[i]

Min2(a, b) == IF a <= b THEN a ELSE b

Abs(a) == IF a < 0 THEN 0 - a ELSE a

\* a / b rounded to the nearest integer (b > 0)
RDiv(a, b) == IF a >= 0 THEN (2 * a + b) \div (2 * b)
              ELSE 0 - ((2 * (0 - a) + b) \div (2 * b))

\* ----------------------------------------------------- OneToManyTable
\* An entry of a table: the item's related items with their parallel lists.
Entry(l, s, p, c) == [list |-> l, strengths |-> s, position |-> p, count |-> c]

\* OneToManyTable.add
add(w, tbl, item, related_items, strengths, position) ==
    IF w.error # NoErr THEN w
    ELSE IF item \in DOMAIN w[tbl] THEN Raise(w, "Exception: Item already in table")
    ELSE [w EXCEPT ![tbl] = Put(@, item, Entry(related_items, strengths, <<position>>, <<1>>))]

\* OneToManyTable.remove
remove(w, tbl, item) ==
    IF w.error # NoErr THEN w
    ELSE IF item \notin DOMAIN w[tbl] THEN Raise(w, "KeyError")
    ELSE [w EXCEPT ![tbl] = Drop(@, item)]

\* A mutant of _normalize: the strengths are left as they are.
_normalize_skipped(list_to_n) == list_to_n

\* OneToManyTable._normalize, for a total above zero
_normalize(list_to_n) ==
    LET total == SumSeq(list_to_n)
    IN [i \in 1..Len(list_to_n) |-> RDiv(list_to_n[i] * ONE, total)]

\* A mutant of _normalize_item: a total of zero or less is passed over.
_normalize_item_silent(w, tbl, item) ==
    IF w.error # NoErr THEN w
    ELSE IF SumSeq(w[tbl][item].strengths) <= 0 THEN w
    ELSE [w EXCEPT ![tbl][item].strengths = _normalize(@)]

\* OneToManyTable._normalize_item
_normalize_item(w, tbl, item) ==
    IF w.error # NoErr THEN w
    ELSE IF SumSeq(w[tbl][item].strengths) <= 0
         THEN Raise(w, "Exception: Cannot normalize a list with a total of zero or less.")
    ELSE [w EXCEPT ![tbl][item].strengths = _normalize(@)]

\* OneToManyTable.is_related
is_related(w, tbl, item, related_item) ==
    item \in DOMAIN w[tbl] /\ InSeq(related_item, w[tbl][item].list)

\* A mutant of add_related_item: the relation is appended before the check.
add_related_item_unchecked(w, tbl, item, related_item, strength, position) ==
    IF w.error # NoErr THEN w
    ELSE IF item \notin DOMAIN w[tbl]
         THEN _normalize_item(add(w, tbl, item, <<related_item>>, <<ONE>>, position), tbl, item)
    ELSE LET e == w[tbl][item]
             w1 == [w EXCEPT ![tbl][item] =
                        Entry(Append(e.list, related_item), Append(e.strengths, strength),
                              Append(e.position, position), Append(e.count, 1))]
         IN IF InSeq(related_item, e.list)
            THEN Raise(w1, "Exception: The item is already related.")
            ELSE _normalize_item(w1, tbl, item)

\* OneToManyTable.add_related_item
add_related_item(w, tbl, item, related_item, strength, position) ==
    IF w.error # NoErr THEN w
    ELSE IF item \notin DOMAIN w[tbl]
         THEN _normalize_item(add(w, tbl, item, <<related_item>>, <<ONE>>, position), tbl, item)
    ELSE LET e == w[tbl][item]
         IN IF ~InSeq(related_item, e.list)
            THEN _normalize_item(
                    [w EXCEPT ![tbl][item] =
                        Entry(Append(e.list, related_item), Append(e.strengths, strength),
                              Append(e.position, position), Append(e.count, 1))],
                    tbl, item)
            ELSE Raise(w, "Exception: The item is already related.")

\* OneToManyTable.remove_related_item
remove_related_item(w, tbl, item, related_item) ==
    IF w.error # NoErr THEN w
    ELSE IF item \notin DOMAIN w[tbl] THEN Raise(w, "KeyError")
    ELSE IF ~InSeq(related_item, w[tbl][item].list) THEN Raise(w, "ValueError")
    ELSE LET e == w[tbl][item]
             idx == IndexOf(related_item, e.list)
             w1 == [w EXCEPT ![tbl][item] =
                        Entry(RemoveAt(e.list, idx), RemoveAt(e.strengths, idx),
                              RemoveAt(e.position, idx), RemoveAt(e.count, idx))]
         IN IF Len(w1[tbl][item].list) > 0 THEN _normalize_item(w1, tbl, item) ELSE w1

\* The moving average of increase_relationship_strength
moving_average(old_pos, position, count) == old_pos + RDiv(position - old_pos, count)

\* OneToManyTable.increase_relationship_strength
increase_relationship_strength(w, tbl, item, related_item, amount, position) ==
    IF w.error # NoErr THEN w
    ELSE IF ~is_related(w, tbl, item, related_item) THEN Raise(w, "AssertionError")
    ELSE LET e == w[tbl][item]
             idx == IndexOf(related_item, e.list)
             cnt == e.count[idx] + 1
             w1 == [w EXCEPT ![tbl][item].strengths[idx] = @ + amount,
                             ![tbl][item].count[idx] = cnt]
         IN IF e.position[idx] # None /\ position = None THEN Raise(w1, "TypeError")
            ELSE _normalize_item(
                    [w1 EXCEPT ![tbl][item].position[idx] =
                        IF e.position[idx] # None
                        THEN moving_average(e.position[idx], position, cnt)
                        ELSE position],
                    tbl, item)

\* ------------------------------------------------------------ objects
\* Node.__init__: the generator's next name, at the cortex' timestep
Node_init(w, cortex, initial_position) ==
    [w EXCEPT !.node_objs = Put(@, w.name_counter,
                  [cortex |-> cortex, created_at |-> timestep,
                   position |-> initial_position, position_momentum |-> 0,
                   qty_feedback_packets |-> 0, last_utilized |-> None,
                   last_encoding |-> None]),
              !.feedback_received = Put(@, w.name_counter, 0),
              !.name_counter = @ + 1]

\* Cluster.__init__, named "cluster_" + the node's name
Cluster_init(w, cortex, name) ==
    [w EXCEPT !.cluster_objs = Put(@, name,
                  [cortex |-> cortex, created_at |-> timestep,
                   last_fired |-> None, last_feedback_packet |-> None])]

\* DataPacket
DataPacket(source_cluster, strength, time, source_node) ==
    [cluster |-> source_cluster, strength |-> strength, time |-> time,
     source_node |-> source_node]

\* ----------------------------------------------- ClusterCorrelation
\* ClusterCorrelation.__init__
ClusterCorrelation_init ==
    [age |-> 1, connections |-> <<>>, cluster_objects |-> <<>>, ref_clusters |-> <<>>]

\* the weights of a record's connections, in the dict's order
Weights(conns) == [i \in 1..Len(conns) |-> conns[i].w]

ConnNames(conns) == [i \in 1..Len(conns) |-> conns[i].name]

\* ClusterCorrelation._normalize: skipped when the total is not above zero
CC_normalize(conns) ==
    LET val_sum == SumSeq(Weights(conns))
    IN IF val_sum > 0
       THEN [i \in 1..Len(conns) |-> [name |-> conns[i].name, w |-> RDiv(conns[i].w * ONE, val_sum)]]
       ELSE conns

\* A mutant of ClusterCorrelation.remove_cluster: the weights that are left
\* are not normalized.
CC_remove_cluster_as_left(w, owner, cluster) ==
    IF w.error # NoErr THEN w
    ELSE IF owner \notin DOMAIN w.correlations THEN Raise(w, "KeyError")
    ELSE LET r == w.correlations[owner]
         IN IF ~InSeq(cluster, ConnNames(r.connections)) THEN Raise(w, "KeyError")
            ELSE LET conns == RemoveAt(r.connections, IndexOf(cluster, ConnNames(r.connections)))
                     w1 == [w EXCEPT !.correlations[owner].connections = conns]
                 IN IF ~InSeq(cluster, r.cluster_objects) THEN Raise(w1, "KeyError")
                    ELSE [w1 EXCEPT !.correlations[owner].cluster_objects =
                                        RemoveAt(@, IndexOf(cluster, @))]

\* ClusterCorrelation.remove_cluster, on the record of `owner`
CC_remove_cluster(w, owner, cluster) ==
    IF w.error # NoErr THEN w
    ELSE IF owner \notin DOMAIN w.correlations THEN Raise(w, "KeyError")
    ELSE LET r == w.correlations[owner]
         IN IF ~InSeq(cluster, ConnNames(r.connections)) THEN Raise(w, "KeyError")
            ELSE LET conns == RemoveAt(r.connections, IndexOf(cluster, ConnNames(r.connections)))
                     w1 == [w EXCEPT !.correlations[owner].connections = conns]
                 IN IF ~InSeq(cluster, r.cluster_objects) THEN Raise(w1, "KeyError")
                    ELSE [w1 EXCEPT !.correlations[owner].cluster_objects =
                                        RemoveAt(@, IndexOf(cluster, @)),
                                    !.correlations[owner].connections = CC_normalize(conns)]

\* A mutant of add_ref: the cluster is appended without a look at the list.
CC_add_ref_again(w, owner, cluster) ==
    IF w.error # NoErr THEN w
    ELSE [w EXCEPT !.correlations[owner].ref_clusters = Append(@, cluster)]

\* ClusterCorrelation.add_ref
CC_add_ref(w, owner, cluster) ==
    IF w.error # NoErr THEN w
    ELSE IF InSeq(cluster, w.correlations[owner].ref_clusters) THEN w
    ELSE [w EXCEPT !.correlations[owner].ref_clusters = Append(@, cluster)]

\* ClusterCorrelation.get_strongest_correlation: the place of the strongest
\* connection (callers check that there is one)
CC_strongest(r) == ArgMax(Weights(r.connections))

\* --------------------------------------------------------------- CDZ
\* CDZ.GAUSSIAN: scipy.signal.gaussian(2 * W, std = 0.65), the upper half,
\* or [1, 0, 0, ...] under CE_IGNORE_GAUSSIAN
GAUSSIAN(time_diff) ==
    IF ignore_gaussian THEN (IF time_diff = 0 THEN ONE ELSE 0)
    ELSE CASE time_diff = 0 -> 744
           [] time_diff = 1 -> 70
           [] time_diff = 2 -> 1
           [] OTHER -> 0

\* A mutant of the first loop of CDZ.remove_cluster: the references to the
\* cluster stay in the records of those it excites.
CDZ_drop_refs_kept(w, excites, cluster) == w

\* the first loop of CDZ.remove_cluster: the references of those it excites
RECURSIVE CDZ_drop_refs(_, _, _)
CDZ_drop_refs(w, excites, cluster) ==
    IF w.error # NoErr \/ Len(excites) = 0 THEN w
    ELSE LET e == Head(excites)
         IN IF e \notin DOMAIN w.correlations THEN Raise(w, "KeyError")
            ELSE IF ~InSeq(cluster, w.correlations[e].ref_clusters) THEN Raise(w, "ValueError")
            ELSE CDZ_drop_refs(
                    [w EXCEPT !.correlations[e].ref_clusters = RemoveAt(@, IndexOf(cluster, @))],
                    Tail(excites), cluster)

\* the second loop of CDZ.remove_cluster: out of those that excite it
RECURSIVE CDZ_drop_conns(_, _, _)
CDZ_drop_conns(w, excited_by, cluster) ==
    IF w.error # NoErr \/ Len(excited_by) = 0 THEN w
    ELSE CDZ_drop_conns(CC_remove_cluster(w, Head(excited_by), cluster),
                        Tail(excited_by), cluster)

\* A mutant of CDZ.remove_cluster: the record goes, what the other records
\* hold of the cluster stays.
CDZ_remove_cluster_record_only(w, cluster) ==
    IF w.error # NoErr THEN w
    ELSE IF cluster \notin DOMAIN w.correlations THEN w
    ELSE [w EXCEPT !.correlations = Drop(@, cluster)]

\* CDZ.remove_cluster
CDZ_remove_cluster(w, cluster) ==
    IF w.error # NoErr THEN w
    ELSE IF cluster \notin DOMAIN w.correlations THEN w
    ELSE LET r == w.correlations[cluster]
             w1 == CDZ_drop_refs(w, r.cluster_objects, cluster)
             w2 == CDZ_drop_conns(w1, r.ref_clusters, cluster)
         IN IF w2.error # NoErr THEN w2
            ELSE [w2 EXCEPT !.correlations = Drop(@, cluster)]

\* ----------------------------------------------------------- Database
\* Database.add_node
add_node(w, node, cluster) ==
    LET w1 == [w EXCEPT !.nodes = @ \cup {node}, !.clusters = @ \cup {cluster}]
        w2 == add(w1, "nodes_to_clusters", node, <<cluster>>, <<ONE>>, None)
        w3 == add(w2, "clusters_to_nodes", cluster, <<node>>, <<ONE>>, None)
    IN add_related_item(w3, "node_manager_to_nodes", w.node_objs[node].cortex, node, ONE, None)

\* the loop of delete_node over the node's clusters
RECURSIVE delete_node_loop(_, _, _)
delete_node_loop(w, cls, node) ==
    IF w.error # NoErr \/ Len(cls) = 0 THEN w
    ELSE delete_node_loop(remove_related_item(w, "clusters_to_nodes", Head(cls), node),
                          Tail(cls), node)

\* Database.delete_node
delete_node(w, node) ==
    IF w.error # NoErr THEN w
    ELSE IF node \notin w.nodes THEN Raise(w, "KeyError")
    ELSE LET w1 == [w EXCEPT !.nodes = @ \ {node}]
         IN IF node \notin DOMAIN w1.nodes_to_clusters THEN Raise(w1, "KeyError")
            ELSE LET w2 == delete_node_loop(w1, w1.nodes_to_clusters[node].list, node)
                     w3 == remove(w2, "nodes_to_clusters", node)
                 IN remove_related_item(w3, "node_manager_to_nodes",
                                        w.node_objs[node].cortex, node)

\* A mutant of the length test of _delete_cluster: a node left without a
\* cluster stays in the store.
delete_orphan_never(w, node) ==
    IF w.error # NoErr THEN w
    ELSE IF node \notin DOMAIN w.nodes_to_clusters THEN Raise(w, "KeyError")
    ELSE w

\* Database.get_nodes_clusters(node) for the length test of _delete_cluster
delete_orphan(w, node) ==
    IF w.error # NoErr THEN w
    ELSE IF node \notin DOMAIN w.nodes_to_clusters THEN Raise(w, "KeyError")
    ELSE IF Len(w.nodes_to_clusters[node].list) = 0 THEN delete_node(w, node)
    ELSE w

\* the forced loop of _delete_cluster over a copy of the cluster's nodes
RECURSIVE delete_cluster_loop(_, _, _)
delete_cluster_loop(w, ns, cluster) ==
    IF w.error # NoErr \/ Len(ns) = 0 THEN w
    ELSE LET node == Head(ns)
             w1 == remove_related_item(w, "nodes_to_clusters", node, cluster)
             w2 == remove_related_item(w1, "clusters_to_nodes", cluster, node)
         IN delete_cluster_loop(delete_orphan(w2, node), Tail(ns), cluster)

\* A mutant of _delete_cluster: the cluster is taken out of the identity
\* table before its node list is looked at.
_delete_cluster_assert_late(w, cluster, force) ==
    IF w.error # NoErr THEN w
    ELSE IF cluster \notin DOMAIN w.clusters_to_nodes THEN Raise(w, "KeyError")
    ELSE LET w1 == IF force
                   THEN delete_cluster_loop(w, w.clusters_to_nodes[cluster].list, cluster)
                   ELSE w
         IN IF w1.error # NoErr THEN w1
            ELSE IF cluster \notin w1.clusters THEN Raise(w1, "KeyError")
            ELSE LET w2 == [w1 EXCEPT !.clusters = @ \ {cluster}]
                 IN IF Len(w2.clusters_to_nodes[cluster].list) # 0
                    THEN Raise(w2, "AssertionError")
                    ELSE CDZ_remove_cluster(remove(w2, "clusters_to_nodes", cluster), cluster)

\* A mutant of Database._delete_cluster: the CDZ is not told.
_delete_cluster_keeping_cdz(w, cluster, force) ==
    IF w.error # NoErr THEN w
    ELSE IF cluster \notin DOMAIN w.clusters_to_nodes THEN Raise(w, "KeyError")
    ELSE LET w1 == IF force
                   THEN delete_cluster_loop(w, w.clusters_to_nodes[cluster].list, cluster)
                   ELSE w
         IN IF w1.error # NoErr THEN w1
            ELSE IF Len(w1.clusters_to_nodes[cluster].list) # 0 THEN Raise(w1, "AssertionError")
            ELSE IF cluster \notin w1.clusters THEN Raise(w1, "KeyError")
            ELSE remove([w1 EXCEPT !.clusters = @ \ {cluster}], "clusters_to_nodes", cluster)

\* Database._delete_cluster
_delete_cluster(w, cluster, force) ==
    IF w.error # NoErr THEN w
    ELSE IF cluster \notin DOMAIN w.clusters_to_nodes THEN Raise(w, "KeyError")
    ELSE LET w1 == IF force
                   THEN delete_cluster_loop(w, w.clusters_to_nodes[cluster].list, cluster)
                   ELSE w
         IN IF w1.error # NoErr THEN w1
            ELSE IF Len(w1.clusters_to_nodes[cluster].list) # 0 THEN Raise(w1, "AssertionError")
            ELSE IF cluster \notin w1.clusters THEN Raise(w1, "KeyError")
            ELSE CDZ_remove_cluster(
                    remove([w1 EXCEPT !.clusters = @ \ {cluster}], "clusters_to_nodes", cluster),
                    cluster)

\* A mutant of adjust_node_to_cluster_strength: a new relation is written to
\* the node's side only.
adjust_node_to_cluster_strength_one_sided(w, node, cluster, amount, last_encoding) ==
    IF w.error # NoErr THEN w
    ELSE IF ~is_related(w, "nodes_to_clusters", node, cluster)
    THEN add_related_item(w, "nodes_to_clusters", node, cluster, amount, last_encoding)
    ELSE increase_relationship_strength(w, "nodes_to_clusters", node, cluster, amount, last_encoding)

\* Database.adjust_node_to_cluster_strength
adjust_node_to_cluster_strength(w, node, cluster, amount, last_encoding) ==
    IF w.error # NoErr THEN w
    ELSE IF ~is_related(w, "nodes_to_clusters", node, cluster)
    THEN add_related_item(
            add_related_item(w, "nodes_to_clusters", node, cluster, amount, last_encoding),
            "clusters_to_nodes", cluster, node, amount, None)
    ELSE increase_relationship_strength(w, "nodes_to_clusters", node, cluster, amount, last_encoding)

\* Database.adjust_cluster_to_node_strength
adjust_cluster_to_node_strength(w, cluster, node, amount) ==
    increase_relationship_strength(w, "clusters_to_nodes", cluster, node, amount, None)

\* Cluster.is_underutilized with a strict comparison
Cluster_is_underutilized_late(w, cluster) ==
    LET c == w.cluster_objs[cluster]
        lf == IF c.last_fired # None THEN c.last_fired ELSE 0
        lp == IF c.last_feedback_packet # None THEN c.last_feedback_packet ELSE 0
        m1 == IF c.created_at >= lf THEN c.created_at ELSE lf
        time_to_use == IF m1 >= lp THEN m1 ELSE lp
    IN (timestep - time_to_use) > CLUSTER_REQUIRED_UTILIZATION

\* Cluster.is_underutilized
Cluster_is_underutilized(w, cluster) ==
    LET c == w.cluster_objs[cluster]
        lf == IF c.last_fired # None THEN c.last_fired ELSE 0
        lp == IF c.last_feedback_packet # None THEN c.last_feedback_packet ELSE 0
        m1 == IF c.created_at >= lf THEN c.created_at ELSE lf
        time_to_use == IF m1 >= lp THEN m1 ELSE lp
    IN (timestep - time_to_use) >= CLUSTER_REQUIRED_UTILIZATION

\* the second loop of Database.cleanup
RECURSIVE db_cleanup_loop(_, _)
db_cleanup_loop(w, clusters_to_delete) ==
    IF w.error # NoErr \/ Len(clusters_to_delete) = 0 THEN w
    ELSE db_cleanup_loop(_delete_cluster(w, Head(clusters_to_delete), TRUE),
                         Tail(clusters_to_delete))

\* the keys of a table in the order a dict keeps them: names are issued in
\* rising order and a key is written once, so this is the rising order
RECURSIVE KeysInOrder(_)
KeysInOrder(S) ==
    IF S = {} THEN <<>>
    ELSE LET m == CHOOSE x \in S : \A y \in S : x <= y
         IN <<m>> \o KeysInOrder(S \ {m})

\* Database.cleanup
db_cleanup(w) ==
    LET keys == KeysInOrder(DOMAIN w.clusters_to_nodes)
        clusters_to_delete == SelectSeq(keys, LAMBDA c : Cluster_is_underutilized(w, c))
    IN db_cleanup_loop(w, clusters_to_delete)

\* --------------------------------------------------------------- Node
\* A mutant of Node.is_underutilized: one timestep late.
Node_is_underutilized_late(w, node) ==
    LET n == w.node_objs[node]
        lu == IF n.last_utilized # None THEN n.last_utilized ELSE 0
        time_to_use == IF n.created_at >= lu THEN n.created_at ELSE lu
    IN (timestep - time_to_use) > NODE_REQUIRED_UTILIZATION

\* Node.is_underutilized
Node_is_underutilized(w, node) ==
    LET n == w.node_objs[node]
        lu == IF n.last_utilized # None THEN n.last_utilized ELSE 0
        time_to_use == IF n.created_at >= lu THEN n.created_at ELSE lu
    IN (timestep - time_to_use) >= NODE_REQUIRED_UTILIZATION

\* A mutant of Node.is_new: the count of feedback packets alone decides.
Node_is_new_by_count(w, node) ==
    w.node_objs[node].qty_feedback_packets <= NODE_IS_NEW

\* Node.is_new
Node_is_new(w, node) ==
    \/ w.node_objs[node].last_utilized = None
    \/ w.node_objs[node].qty_feedback_packets <= NODE_IS_NEW

\* certainty = strongest**2 * min(age / factor, 1), of Node.uncertainty and
\* ClusterCorrelation.uncertainty
CertaintyOf(strongest, age, factor) ==
    RDiv(RDiv(strongest * strongest, ONE) * Min2(RDiv(age * ONE, factor), ONE), ONE)

\* Node.correlation_variance, for a node with clusters
Node_correlation_variance(w, node) == ONE - MaxOf(w.nodes_to_clusters[node].strengths)

\* what db.get_nodes_clusters and max(strengths) raise for a node, if anything
Node_strengths_error(w, node) ==
    IF node \notin DOMAIN w.nodes_to_clusters THEN "KeyError"
    ELSE IF Len(w.nodes_to_clusters[node].strengths) = 0 THEN "ValueError"
    ELSE NoErr

\* Node.certainty, for a node with clusters
Node_certainty(w, node) ==
    ONE - (ONE - CertaintyOf(MaxOf(w.nodes_to_clusters[node].strengths),
                             w.node_objs[node].qty_feedback_packets,
                             NODE_CERTAINTY_AGE_FACTOR))

\* Node._move_in_direction after Node.learn's get_distance, and last_utilized
Node_learn(w, node, position) ==
    IF w.error # NoErr THEN w
    ELSE LET n == w.node_objs[node]
             direction == 0 - (n.position - position)
         IN [w EXCEPT !.node_objs[node].position =
                        @ + RDiv(NODE_POSITION_LEARNING_RATE
                                 * (direction + RDiv(NODE_POSITION_MOMENTUM_ALPHA
                                                     * n.position_momentum, 100)), 100),
                      !.node_objs[node].position_momentum =
                        RDiv(NODE_POSITION_MOMENTUM_DECAY * @, 100)
                        + RDiv(NODE_POSITION_LEARNING_RATE * direction, 100),
                      !.node_objs[node].last_utilized = timestep]

\* A mutant of Node.receive_feedback_packet: the packet is not counted.
Node_receive_feedback_packet_uncounted(w, node, packet) ==
    adjust_node_to_cluster_strength(w, node, packet.cluster,
        RDiv(packet.strength * NODE_TO_CLUSTER_LEARNING_RATE, ONE),
        w.node_objs[node].last_encoding)

\* Node.receive_feedback_packet
Node_receive_feedback_packet(w, node, packet) ==
    LET amount == RDiv(packet.strength * NODE_TO_CLUSTER_LEARNING_RATE, ONE)
        w1 == adjust_node_to_cluster_strength(w, node, packet.cluster, amount,
                                              w.node_objs[node].last_encoding)
    IN IF w1.error # NoErr THEN w1
       ELSE [w1 EXCEPT !.node_objs[node].qty_feedback_packets = @ + 1]

\* Node.get_strongest_cluster, for a node with clusters
Node_get_strongest_cluster(w, node) ==
    w.nodes_to_clusters[node].list[ArgMax(w.nodes_to_clusters[node].strengths)]

\* NodeManager.nodes
NM_nodes(w, s) == w.node_manager_to_nodes[s].list

\* A mutant of NodeManager.receive_feedback_packet: the packet the node has
\* taken comes back to it as a further feedback packet.
NM_receive_feedback_packet_echo(w, s, packet) ==
    IF w.error # NoErr THEN w
    ELSE IF w.node_managers[s].last_fired_node = None THEN Raise(w, "AttributeError")
    ELSE LET node == w.node_managers[s].last_fired_node
             w1 == Node_receive_feedback_packet(
                       Node_receive_feedback_packet(w, node, packet), node, packet)
         IN IF w1.error # NoErr THEN w1
            ELSE [w1 EXCEPT !.feedback_received[node] = @ + 2]

\* NodeManager.receive_feedback_packet
NM_receive_feedback_packet(w, s, packet) ==
    IF w.error # NoErr THEN w
    ELSE IF w.node_managers[s].last_fired_node = None THEN Raise(w, "AttributeError")
    ELSE LET node == w.node_managers[s].last_fired_node
             w1 == Node_receive_feedback_packet(w, node, packet)
         IN IF w1.error # NoErr THEN w1
            ELSE [w1 EXCEPT !.feedback_received[node] = @ + 1]

\* A mutant of Cluster.receive_feedback_packet: the time is not kept.
Cluster_receive_feedback_packet_unstamped(w, cluster, feedback_packet) ==
    IF w.error # NoErr THEN w
    ELSE NM_receive_feedback_packet(w, w.cluster_objs[cluster].cortex, feedback_packet)

\* Cluster.receive_feedback_packet
Cluster_receive_feedback_packet(w, cluster, feedback_packet) ==
    IF w.error # NoErr THEN w
    ELSE NM_receive_feedback_packet(
            [w EXCEPT !.cluster_objs[cluster].last_feedback_packet = timestep],
            w.cluster_objs[cluster].cortex, feedback_packet)

\* ------------------------------------------------- CDZ, the packets
PacketCortex(w, packet) == w.cluster_objs[packet.cluster].cortex

\* ClusterCorrelation.update, on the record of q_packet's cluster
CC_update(w, q_packet, new_packet) ==
    IF w.error # NoErr THEN w
    ELSE LET owner == q_packet.cluster
             r == w.correlations[owner]
             time_diff == new_packet.time - q_packet.time
         IN IF PacketCortex(w, q_packet) = PacketCortex(w, new_packet)
               \/ q_packet.strength > ONE \/ new_packet.strength > ONE \/ time_diff < 0
            THEN Raise(w, "AssertionError")
            ELSE IF time_diff >= CE_CORRELATION_WINDOW_MAX THEN Raise(w, "IndexError")
            ELSE LET correlation_update ==
                         RDiv(RDiv(RDiv(CE_LEARNING_RATE * GAUSSIAN(time_diff), ONE)
                                   * new_packet.strength, ONE) * q_packet.strength, ONE)
                     names == ConnNames(r.connections)
                     conns == IF InSeq(new_packet.cluster, names)
                              THEN [r.connections EXCEPT
                                        ![IndexOf(new_packet.cluster, names)].w =
                                            @ + correlation_update]
                              ELSE Append(r.connections,
                                          [name |-> new_packet.cluster, w |-> correlation_update])
                 IN [w EXCEPT !.correlations[owner] =
                        [age |-> r.age + 1,
                         connections |-> CC_normalize(conns),
                         cluster_objects |->
                            IF InSeq(new_packet.cluster, r.cluster_objects)
                            THEN r.cluster_objects
                            ELSE Append(r.cluster_objects, new_packet.cluster),
                         ref_clusters |-> r.ref_clusters]]

\* A mutant of _update_connection: the cortices are not compared.
_update_connection_any_cortex(w, old_packet, new_packet) ==
    IF w.error # NoErr THEN w
    ELSE LET w1 == IF old_packet.cluster \in DOMAIN w.correlations THEN w
                   ELSE [w EXCEPT !.correlations =
                            Put(@, old_packet.cluster, ClusterCorrelation_init)]
             w2 == IF new_packet.cluster \in DOMAIN w1.correlations THEN w1
                   ELSE [w1 EXCEPT !.correlations =
                            Put(@, new_packet.cluster, ClusterCorrelation_init)]
         IN CC_add_ref(CC_update(w2, old_packet, new_packet),
                       new_packet.cluster, old_packet.cluster)

\* CDZ._update_connection
_update_connection(w, old_packet, new_packet) ==
    IF w.error # NoErr THEN w
    ELSE IF PacketCortex(w, new_packet) = PacketCortex(w, old_packet) THEN w
    ELSE LET w1 == IF old_packet.cluster \in DOMAIN w.correlations THEN w
                   ELSE [w EXCEPT !.correlations =
                            Put(@, old_packet.cluster, ClusterCorrelation_init)]
             w2 == IF new_packet.cluster \in DOMAIN w1.correlations THEN w1
                   ELSE [w1 EXCEPT !.correlations =
                            Put(@, new_packet.cluster, ClusterCorrelation_init)]
         IN CC_add_ref(CC_update(w2, old_packet, new_packet),
                       new_packet.cluster, old_packet.cluster)

\* CDZ._send_feedback_packet
_send_feedback_packet(w, packet) ==
    IF w.error # NoErr THEN w
    ELSE IF packet.cluster \notin DOMAIN w.correlations THEN Raise(w, "KeyError")
    ELSE LET cdz_connection == w.correlations[packet.cluster]
         IN IF Len(cdz_connection.connections) = 0 THEN Raise(w, "ValueError")
            ELSE LET best == cdz_connection.connections[CC_strongest(cdz_connection)]
                     cluster == best.name
                     cdz_strength == best.w
                 IN IF ~InSeq(cluster, cdz_connection.cluster_objects) THEN Raise(w, "KeyError")
                    ELSE IF Node_strengths_error(w, packet.source_node) # NoErr
                         THEN Raise(w, Node_strengths_error(w, packet.source_node))
                    ELSE LET cc_certainty ==
                                 ONE - (ONE - CertaintyOf(cdz_strength, cdz_connection.age,
                                                          CE_CERTAINTY_AGE_FACTOR))
                             certainty_factor ==
                                 RDiv(Node_certainty(w, packet.source_node) * cc_certainty, ONE)
                             strength ==
                                 RDiv((ONE + certainty_factor) * (ONE + certainty_factor), ONE)
                         IN Cluster_receive_feedback_packet(w, cluster,
                                DataPacket(cluster, strength, packet.time, packet.source_node))

\* A mutant of the loop of CDZ.receive_packet: the connection of the new
\* packet's cluster to the queued one is left out.
RECURSIVE receive_packet_loop_one_way(_, _, _, _)
receive_packet_loop_one_way(w, queue, packet, learn) ==
    IF w.error # NoErr \/ Len(queue) = 0 THEN w
    ELSE LET q_packet == Head(queue)
         IN IF (packet.time - q_packet.time) >= CE_CORRELATION_WINDOW_MAX THEN w
            ELSE IF packet.time = q_packet.time /\ learn
            THEN receive_packet_loop_one_way(
                    _send_feedback_packet(
                        _send_feedback_packet(_update_connection(w, q_packet, packet),
                                              q_packet),
                        packet),
                    Tail(queue), packet, learn)
            ELSE receive_packet_loop_one_way(w, Tail(queue), packet, learn)

\* A mutant of the loop of CDZ.receive_packet: only the newest queued packet
\* is looked at.
receive_packet_loop_newest_only(w, queue, packet, learn) ==
    IF w.error # NoErr \/ Len(queue) = 0 THEN w
    ELSE LET q_packet == Head(queue)
         IN IF (packet.time - q_packet.time) >= CE_CORRELATION_WINDOW_MAX THEN w
            ELSE IF packet.time = q_packet.time /\ learn
            THEN _send_feedback_packet(
                    _send_feedback_packet(
                        _update_connection(
                            _update_connection(w, q_packet, packet),
                            packet, q_packet),
                        q_packet),
                    packet)
            ELSE w

\* the loop of CDZ.receive_packet over the queue, newest first
RECURSIVE receive_packet_loop(_, _, _, _)
receive_packet_loop(w, queue, packet, learn) ==
    IF w.error # NoErr \/ Len(queue) = 0 THEN w
    ELSE LET q_packet == Head(queue)
         IN IF (packet.time - q_packet.time) >= CE_CORRELATION_WINDOW_MAX THEN w
            ELSE IF packet.time = q_packet.time /\ learn
            THEN receive_packet_loop(
                    _send_feedback_packet(
                        _send_feedback_packet(
                            _update_connection(
                                _update_connection(w, q_packet, packet),
                                packet, q_packet),
                            q_packet),
                        packet),
                    Tail(queue), packet, learn)
            ELSE receive_packet_loop(w, Tail(queue), packet, learn)

\* A mutant of appendleft: a deque without maxlen.
appendleft_unbounded(queue, packet) == <<packet>> \o queue

\* deque(maxlen = PACKET_QUEUE_LENGTH).appendleft
appendleft(queue, packet) ==
    IF Len(queue) >= CE_CORRELATION_WINDOW_MAX + 1
    THEN <<packet>> \o SubSeq(queue, 1, CE_CORRELATION_WINDOW_MAX)
    ELSE <<packet>> \o queue

\* CDZ.receive_packet (_process_output returns at once)
receive_packet(w, packet, learn) ==
    LET w1 == receive_packet_loop(w, w.packet_queue, packet, learn)
    IN IF w1.error # NoErr THEN w1
       ELSE [w1 EXCEPT !.packet_queue = appendleft(@, packet)]

\* A mutant of Cluster.excite_cdz: the strength to the node is adjusted
\* whatever learn is.
excite_cdz_adjusting(w, cluster, strength, source_node, learn) ==
    IF w.error # NoErr THEN w
    ELSE LET packet == DataPacket(cluster, strength, timestep, source_node)
             w1 == [w EXCEPT !.cluster_objs[cluster].last_fired = timestep]
         IN receive_packet(adjust_cluster_to_node_strength(w1, cluster, source_node,
                                                           CLUSTER_NODE_LEARNING_RATE),
                           packet, learn)

\* Cluster.excite_cdz
excite_cdz(w, cluster, strength, source_node, learn) ==
    IF w.error # NoErr THEN w
    ELSE LET packet == DataPacket(cluster, strength, timestep, source_node)
             w1 == [w EXCEPT !.cluster_objs[cluster].last_fired = timestep]
             w2 == IF learn
                   THEN adjust_cluster_to_node_strength(w1, cluster, source_node,
                                                        CLUSTER_NODE_LEARNING_RATE)
                   ELSE w1
         IN receive_packet(w2, packet, learn)

\* -------------------------------------------------------- NodeManager
\* NodeManager.__init__
NodeManager_init ==
    [last_fired_node |-> None, finished_initial |-> FALSE, nn_index |-> <<>>,
     distance_count |-> 0]

\* Node(...), Cluster(..., "cluster_" + node.name), db.add_node
new_node(w, s, position) ==
    IF w.error # NoErr THEN w
    ELSE add_node(Cluster_init(Node_init(w, s, position), s, w.name_counter),
                  w.name_counter, w.name_counter)

\* A mutant of _add_initial_nodes: the first node ends the initial phase.
_add_initial_nodes_once(w, s, encoding) ==
    LET w1 == IF Len(NM_nodes(w, s)) <= MAX_NODES /\ ~w.node_managers[s].finished_initial
              THEN new_node(w, s, encoding)
              ELSE w
    IN IF w1.error # NoErr THEN w1
       ELSE [w1 EXCEPT !.node_managers[s].finished_initial = TRUE]

\* A mutant of _add_initial_nodes: a cortex that has fallen below
\* INITIAL_NODES is filled up again.
_add_initial_nodes_refilling(w, s, encoding) ==
    LET w1 == IF Len(NM_nodes(w, s)) < INITIAL_NODES
              THEN new_node(w, s, encoding)
              ELSE w
    IN IF w1.error # NoErr THEN w1
       ELSE IF Len(NM_nodes(w1, s)) >= INITIAL_NODES
            THEN [w1 EXCEPT !.node_managers[s].finished_initial = TRUE]
            ELSE w1

\* NodeManager._add_initial_nodes
_add_initial_nodes(w, s, encoding) ==
    LET w1 == IF Len(NM_nodes(w, s)) <= MAX_NODES /\ ~w.node_managers[s].finished_initial
              THEN new_node(w, s, encoding)
              ELSE w
    IN IF w1.error # NoErr THEN w1
       ELSE IF Len(NM_nodes(w1, s)) >= INITIAL_NODES
            THEN [w1 EXCEPT !.node_managers[s].finished_initial = TRUE]
            ELSE w1

\* the slots of the index nearest to an encoding (get_nns_by_vector, n = 1)
NearestSlots(index, encoding) ==
    {i \in 1..Len(index) :
        \A j \in 1..Len(index) : Abs(index[i] - encoding) <= Abs(index[j] - encoding)}

\* min(tuples, key = distance): the first of the nearest nodes
ExactNearest(w, ns, encoding) ==
    ns[CHOOSE i \in 1..Len(ns) :
          /\ \A j \in 1..Len(ns) :
                Abs(w.node_objs[ns[i]].position - encoding)
                    <= Abs(w.node_objs[ns[j]].position - encoding)
          /\ \A j \in 1..(i - 1) :
                Abs(w.node_objs[ns[j]].position - encoding)
                    > Abs(w.node_objs[ns[i]].position - encoding)]

\* NodeManager._find_nearest_node: the node, or None with the exception;
\* slot is the place the index answers with
_find_nearest_node(w, s, encoding, slot) ==
    LET ns == NM_nodes(w, s)
        index == w.node_managers[s].nn_index
    IN IF NRND_OPTIMIZER_ENABLED /\ Len(index) > 0
       THEN IF slot > Len(ns) THEN [node |-> None, error |-> "IndexError"]
            ELSE [node |-> ns[slot], error |-> NoErr]
       ELSE IF Len(ns) = 0 THEN [node |-> None, error |-> "AssertionError"]
            ELSE [node |-> ExactNearest(w, ns, encoding), error |-> NoErr]

\* NodeManager.receive_encoding (with _update_avg_distance's count)
receive_encoding(w, s, encoding, learn, slot) ==
    LET w1 == _add_initial_nodes(w, s, encoding)
        found == _find_nearest_node(w1, s, encoding, slot)
        nearest_node == found.node
    IN IF w1.error # NoErr THEN w1
       ELSE IF found.error # NoErr THEN Raise(w1, found.error)
       ELSE LET w2 == [w1 EXCEPT !.node_objs[nearest_node].last_encoding = encoding]
            IN IF Node_strengths_error(w2, nearest_node) # NoErr
               THEN Raise(w2, Node_strengths_error(w2, nearest_node))
               ELSE LET strongest_cluster == Node_get_strongest_cluster(w2, nearest_node)
                        w3 == [w2 EXCEPT !.node_managers[s].last_fired_node = nearest_node]
                        w4 == IF learn
                              THEN [Node_learn(w3, nearest_node, encoding)
                                       EXCEPT !.node_managers[s].distance_count = @ + 1]
                              ELSE w3
                    IN excite_cdz(w4, strongest_cluster, ONE, nearest_node, learn)

\* NodeManager.build_nrnd_index (the momentum of the average distance stays
\* far below NRND_MAX_AVG_DISTANCE_MOMENTUM = 1e50)
build_nrnd_index(w, s) ==
    IF w.error # NoErr THEN w
    ELSE LET nm == w.node_managers[s]
             ns == NM_nodes(w, s)
         IN IF NRND_OPTIMIZER_ENABLED
               /\ (Len(nm.nn_index) > 0
                   \/ (nm.finished_initial /\ nm.distance_count > NRND_MIN_DISTANCE_COUNT))
            THEN IF Len(ns) = 0 THEN Raise(w, "IndexError")
                 ELSE [w EXCEPT !.node_managers[s].nn_index =
                            [i \in 1..Len(ns) |-> w.node_objs[ns[i]].position]]
            ELSE w

\* the loops of _delete_underutilized_items and _delete_new_items, over a
\* copy of the node list
RECURSIVE delete_underutilized_loop(_, _)
delete_underutilized_loop(w, ns) ==
    IF w.error # NoErr \/ Len(ns) = 0 THEN w
    ELSE delete_underutilized_loop(
            IF Node_is_underutilized(w, Head(ns)) THEN delete_node(w, Head(ns)) ELSE w,
            Tail(ns))

RECURSIVE delete_new_loop(_, _)
delete_new_loop(w, ns) ==
    IF w.error # NoErr \/ Len(ns) = 0 THEN w
    ELSE delete_new_loop(
            IF Node_is_new(w, Head(ns)) THEN delete_node(w, Head(ns)) ELSE w,
            Tail(ns))

\* A mutant of NodeManager.cleanup: delete_new_items is not looked at.
NM_cleanup_underutilized_only(w, s, delete_new_items) ==
    delete_underutilized_loop(w, NM_nodes(w, s))

\* NodeManager.cleanup
NM_cleanup(w, s, delete_new_items) ==
    LET w1 == delete_underutilized_loop(w, NM_nodes(w, s))
    IN IF delete_new_items /\ w1.error = NoErr
       THEN delete_new_loop(w1, NM_nodes(w1, s))
       ELSE w1

\* sorted(nodes, key = correlation_variance, reverse = True): stable
RECURSIVE SortByVariance(_, _)
SortByVariance(w, ns) ==
    IF Len(ns) = 0 THEN <<>>
    ELSE LET i == CHOOSE i \in 1..Len(ns) :
                    /\ \A j \in 1..Len(ns) :
                          Node_correlation_variance(w, ns[j]) <= Node_correlation_variance(w, ns[i])
                    /\ \A j \in 1..(i - 1) :
                          Node_correlation_variance(w, ns[j]) < Node_correlation_variance(w, ns[i])
         IN <<ns[i]>> \o SortByVariance(w, RemoveAt(ns, i))

\* A mutant of is_eligible: a new node may be split.
is_eligible_new_too(w, node) ==
    /\ Node_correlation_variance(w, node) > NODE_SPLIT_MAX_CORRELATION_VARIANCE
    /\ ~Node_is_underutilized(w, node)

\* is_eligible of create_new_nodes
is_eligible(w, node) ==
    /\ Node_correlation_variance(w, node) > NODE_SPLIT_MAX_CORRELATION_VARIANCE
    /\ ~Node_is_new(w, node)
    /\ ~Node_is_underutilized(w, node)

\* A mutant of the inner loop of create_new_nodes: a node for every edge.
RECURSIVE split_edges_all(_, _, _, _)
split_edges_all(w, s, e, idx) ==
    IF w.error # NoErr \/ idx > Len(e.list) THEN w
    ELSE split_edges_all(new_node(w, s, e.position[idx]), s, e, idx + 1)

\* the inner loop of create_new_nodes: a node at each position seen often
RECURSIVE split_edges(_, _, _, _)
split_edges(w, s, e, idx) ==
    IF w.error # NoErr \/ idx > Len(e.list) THEN w
    ELSE split_edges(IF e.count[idx] > SPLIT_MIN_COUNT THEN new_node(w, s, e.position[idx]) ELSE w,
                     s, e, idx + 1)

\* A mutant of the loop of create_new_nodes: no test after a split.
RECURSIVE split_loop_no_break(_, _, _, _)
split_loop_no_break(w, s, sorted_nodes, num_nodes_added) ==
    IF w.error # NoErr \/ Len(sorted_nodes) = 0 THEN w
    ELSE LET node == Head(sorted_nodes)
         IN IF Node_strengths_error(w, node) # NoErr
            THEN Raise(w, Node_strengths_error(w, node))
            ELSE IF ~is_eligible(w, node)
            THEN split_loop_no_break(w, s, Tail(sorted_nodes), num_nodes_added)
            ELSE LET e == w.nodes_to_clusters[node]
                     w1 == split_edges(w, s, e, 1)
                     w2 == new_node(w1, s, w.node_objs[node].position)
                 IN split_loop_no_break(delete_node(w2, node), s, Tail(sorted_nodes),
                                        num_nodes_added)

\* the loop of create_new_nodes over the sorted nodes
RECURSIVE split_loop(_, _, _, _)
split_loop(w, s, sorted_nodes, num_nodes_added) ==
    IF w.error # NoErr \/ Len(sorted_nodes) = 0 THEN w
    ELSE LET node == Head(sorted_nodes)
         IN IF Node_strengths_error(w, node) # NoErr
            THEN Raise(w, Node_strengths_error(w, node))
            ELSE IF ~is_eligible(w, node)
            THEN split_loop(w, s, Tail(sorted_nodes), num_nodes_added)
            ELSE LET e == w.nodes_to_clusters[node]
                     w1 == split_edges(w, s, e, 1)
                     w2 == new_node(w1, s, w.node_objs[node].position)
                     w3 == delete_node(w2, node)
                     added == num_nodes_added
                              + Cardinality({i \in 1..Len(e.list) : e.count[i] > SPLIT_MIN_COUNT})
                 IN IF w3.error # NoErr THEN w3
                    ELSE IF Len(NM_nodes(w3, s)) >= MAX_NODES \/ added >= NODE_SPLIT_MAX_QTY
                    THEN w3
                    ELSE split_loop(w3, s, Tail(sorted_nodes), added)

\* NodeManager.create_new_nodes
create_new_nodes(w, s) ==
    LET ns == NM_nodes(w, s)
        bad == {i \in 1..Len(ns) : Node_strengths_error(w, ns[i]) # NoErr}
    IN IF Len(ns) >= MAX_NODES THEN w
       ELSE IF bad # {}
            THEN Raise(w, Node_strengths_error(w, ns[CHOOSE i \in bad : \A j \in bad : i <= j]))
       ELSE IF Len(ns) = 0 THEN Raise(w, "IndexError")
       ELSE build_nrnd_index(split_loop(w, s, SortByVariance(w, ns), 0), s)

\* ------------------------------------------------------ state machine
\* the state as the world the operators work on
Cur ==
    [nodes |-> nodes, clusters |-> clusters,
     nodes_to_clusters |-> nodes_to_clusters, clusters_to_nodes |-> clusters_to_nodes,
     node_manager_to_nodes |-> node_manager_to_nodes,
     node_objs |-> node_objs, cluster_objs |-> cluster_objs,
     node_managers |-> node_managers, correlations |-> correlations,
     packet_queue |-> packet_queue, name_counter |-> name_counter, error |-> error,
     feedback_received |-> feedback_received]

\* the world a call leaves becomes the state
Written(w) ==
    /\ nodes' = w.nodes
    /\ clusters' = w.clusters
    /\ nodes_to_clusters' = w.nodes_to_clusters
    /\ clusters_to_nodes' = w.clusters_to_nodes
    /\ node_manager_to_nodes' = w.node_manager_to_nodes
    /\ node_objs' = w.node_objs
    /\ cluster_objs' = w.cluster_objs
    /\ node_managers' = w.node_managers
    /\ correlations' = w.correlations
    /\ packet_queue' = w.packet_queue
    /\ name_counter' = w.name_counter
    /\ error' = w.error
    /\ feedback_received' = w.feedback_received
    /\ UNCHANGED ignore_gaussian

\* no more names than MaxIds over a run
Commit(w) == w.name_counter <= MaxIds + 1 /\ Written(w)

\* Database.__init__, CDZ.__init__, and Cortex.__init__ for each cortex:
\* db.node_manager_to_nodes.add(node_manager, [], [])
InitStore ==
    /\ nodes = {}
    /\ clusters = {}
    /\ nodes_to_clusters = <<>>
    /\ clusters_to_nodes = <<>>
    /\ node_manager_to_nodes = [s \in Streams |-> Entry(<<>>, <<>>, <<None>>, <<1>>)]
    /\ node_objs = <<>>
    /\ cluster_objs = <<>>
    /\ node_managers = [s \in Streams |-> NodeManager_init]
    /\ correlations = <<>>
    /\ packet_queue = <<>>
    /\ timestep = 0
    /\ name_counter = 1
    /\ error = NoErr
    /\ received = [s \in Streams |-> 0]
    /\ maintenance = 0
    /\ feedback_received = <<>>
    /\ store_calls = 0
    /\ adjust_log = <<>>

\* Cortex.receive_sensory_input: the encoding of the data to the node manager
ReceiveSensoryInput(s, encoding, learn, slot) ==
    /\ error = NoErr
    /\ SumSeq([i \in 1..Cardinality(Streams) |-> received[i]]) < MaxEvents
    /\ slot \in IF Len(node_managers[s].nn_index) > 0
                THEN NearestSlots(node_managers[s].nn_index, encoding)
                ELSE {1}
    /\ Commit(receive_encoding(Cur, s, encoding, learn, slot))
    /\ received' = [received EXCEPT ![s] = @ + 1]
    /\ UNCHANGED <<timestep, maintenance, store_calls, adjust_log>>

\* Cortex.cleanup
Cleanup(s, delete_new_items) ==
    /\ error = NoErr
    /\ maintenance < MaxMaintenance
    /\ Commit(NM_cleanup(Cur, s, delete_new_items))
    /\ maintenance' = maintenance + 1
    /\ UNCHANGED <<received, timestep, store_calls, adjust_log>>

\* Cortex.create_new_nodes
CreateNewNodes(s) ==
    /\ error = NoErr
    /\ maintenance < MaxMaintenance
    /\ Commit(create_new_nodes(Cur, s))
    /\ maintenance' = maintenance + 1
    /\ UNCHANGED <<received, timestep, store_calls, adjust_log>>

\* Database.cleanup
DbCleanup ==
    /\ error = NoErr
    /\ maintenance < MaxMaintenance
    /\ Commit(db_cleanup(Cur))
    /\ maintenance' = maintenance + 1
    /\ UNCHANGED <<received, timestep, store_calls, adjust_log>>

\* the brain's clock moves on
Tick ==
    /\ error = NoErr
    /\ timestep < MaxTime
    /\ timestep' = timestep + 1
    /\ UNCHANGED <<nodes, clusters, nodes_to_clusters, clusters_to_nodes,
                   node_manager_to_nodes, node_objs, cluster_objs, node_managers,
                   correlations, packet_queue, ignore_gaussian, name_counter,
                   error, received, maintenance, feedback_received,
                   store_calls, adjust_log>>

Next ==
    \/ \E s \in Streams, encoding \in Encodings, learn \in BOOLEAN, slot \in 1..MaxIds :
          ReceiveSensoryInput(s, encoding, learn, slot)
    \/ \E s \in Streams, delete_new_items \in BOOLEAN : Cleanup(s, delete_new_items)
    \/ \E s \in Streams : CreateNewNodes(s)
    \/ DbCleanup
    \/ Tick

\* the shipped configuration: CE_IGNORE_GAUSSIAN = True
Init == InitStore /\ ignore_gaussian = TRUE

Spec == Init /\ [][Next]_vars

\* the same engine under the bell-shaped kernel (CE_IGNORE_GAUSSIAN = False)
InitBell == InitStore /\ ignore_gaussian = FALSE

SpecBell == InitBell /\ [][Next]_vars

\* ------------------------------------------- the store, called directly
\* The store's methods take any node or cluster object the caller holds, live
\* or deleted; an exception goes back to the caller, who may go on calling.
Called == [Cur EXCEPT !.error = NoErr]

\* the cortex whose nodes the direct calls add
StoreCortex == CHOOSE s \in Streams : TRUE

\* the log of the edges that are still in nodes_to_clusters
PruneLog(log, n2c) ==
    [e \in {x \in DOMAIN log : x[1] \in DOMAIN n2c /\ InSeq(x[2], n2c[x[1]].list)} |-> log[e]]

LogOf(log, e) == IF e \in DOMAIN log THEN log[e] ELSE <<>>

StoreFrame == UNCHANGED <<timestep, received, maintenance>>

\* Database.add_node with a new node and its cluster
S_AddNode(s, position) ==
    /\ Cardinality(DOMAIN node_objs) < MaxStoreNodes
    /\ Commit(new_node(Called, s, position))
    /\ StoreFrame
    /\ UNCHANGED <<store_calls, adjust_log>>

\* Database.delete_node
S_DeleteNode(node) ==
    /\ node \in DOMAIN node_objs
    /\ LET w == delete_node(Called, node)
       IN Commit(w) /\ adjust_log' = PruneLog(adjust_log, w.nodes_to_clusters)
    /\ StoreFrame
    /\ UNCHANGED store_calls

\* Database._delete_cluster
S_DeleteCluster(cluster, force) ==
    /\ cluster \in DOMAIN cluster_objs
    /\ LET w == _delete_cluster(Called, cluster, force)
       IN Commit(w) /\ adjust_log' = PruneLog(adjust_log, w.nodes_to_clusters)
    /\ StoreFrame
    /\ UNCHANGED store_calls

\* Database.adjust_node_to_cluster_strength
AdjustNodeToCluster(node, cluster, amount, position) ==
    /\ node \in DOMAIN node_objs
    /\ cluster \in DOMAIN cluster_objs
    /\ LET w == adjust_node_to_cluster_strength(Called, node, cluster, amount, position)
           e == <<node, cluster>>
       IN /\ Commit(w)
          /\ adjust_log' = PruneLog(Put(adjust_log, e, Append(LogOf(adjust_log, e), position)),
                                    w.nodes_to_clusters)
    /\ store_calls' = store_calls + 1
    /\ StoreFrame

S_AdjustNodeToCluster(node, cluster, amount, position) ==
    store_calls < MaxStoreCalls /\ AdjustNodeToCluster(node, cluster, amount, position)

\* Database.adjust_cluster_to_node_strength
S_AdjustClusterToNode(cluster, node, amount) ==
    /\ store_calls < MaxStoreCalls
    /\ node \in DOMAIN node_objs
    /\ cluster \in DOMAIN cluster_objs
    /\ Commit(adjust_cluster_to_node_strength(Called, cluster, node, amount))
    /\ store_calls' = store_calls + 1
    /\ StoreFrame
    /\ UNCHANGED adjust_log

\* Database.cleanup
S_Cleanup ==
    /\ maintenance < MaxMaintenance
    /\ LET w == db_cleanup(Called)
       IN Commit(w) /\ adjust_log' = PruneLog(adjust_log, w.nodes_to_clusters)
    /\ maintenance' = maintenance + 1
    /\ UNCHANGED <<timestep, received, store_calls>>

\* the clock moves on between calls
S_Tick ==
    /\ timestep < MaxTime
    /\ timestep' = timestep + 1
    /\ UNCHANGED <<nodes, clusters, nodes_to_clusters, clusters_to_nodes,
                   node_manager_to_nodes, node_objs, cluster_objs, node_managers,
                   correlations, packet_queue, ignore_gaussian, name_counter,
                   error, received, maintenance, feedback_received,
                   store_calls, adjust_log>>

NextStore ==
    \/ S_AddNode(StoreCortex, StorePosition)
    \/ \E node \in 1..MaxStoreNodes : S_DeleteNode(node)
    \/ \E cluster \in 1..MaxStoreNodes, force \in BOOLEAN : S_DeleteCluster(cluster, force)
    \/ \E node \in 1..MaxStoreNodes, cluster \in 1..MaxStoreNodes :
          S_AdjustNodeToCluster(node, cluster, StoreAmount, StorePosition)
    \/ \E node \in 1..MaxStoreNodes, cluster \in 1..MaxStoreNodes :
          S_AdjustClusterToNode(cluster, node, StoreAmount)
    \/ S_Cleanup
    \/ S_Tick

SpecStore == Init /\ [][NextStore]_vars

\* ------------------------------------ the edges of the store, adjusted
E_AdjustNodeToCluster(node, cluster, amount, position) ==
    store_calls < MaxEdgeCalls /\ AdjustNodeToCluster(node, cluster, amount, position)

NextEdge ==
    \/ S_AddNode(StoreCortex, StorePosition)
    \/ \E node \in 1..MaxStoreNodes, cluster \in 1..MaxStoreNodes, amount \in Amounts,
          position \in Encodings : E_AdjustNodeToCluster(node, cluster, amount, position)

SpecEdge == Init /\ [][NextEdge]_vars

\* ------------------------------------------- one table, called directly
\* OneToManyTable.add_related_item on nodes_to_clusters
T_AddRelatedItem(item, related_item, strength, position) ==
    /\ store_calls < MaxTableCalls
    /\ Commit(add_related_item(Called, "nodes_to_clusters", item, related_item,
                               strength, position))
    /\ store_calls' = store_calls + 1
    /\ StoreFrame
    /\ UNCHANGED adjust_log

\* OneToManyTable.remove_related_item
T_RemoveRelatedItem(item, related_item) ==
    /\ Commit(remove_related_item(Called, "nodes_to_clusters", item, related_item))
    /\ StoreFrame
    /\ UNCHANGED <<store_calls, adjust_log>>

\* OneToManyTable.increase_relationship_strength
T_IncreaseRelationshipStrength(item, related_item, amount, position) ==
    /\ store_calls < MaxTableCalls
    /\ Commit(increase_relationship_strength(Called, "nodes_to_clusters", item,
                                             related_item, amount, position))
    /\ store_calls' = store_calls + 1
    /\ StoreFrame
    /\ UNCHANGED adjust_log

NextTable ==
    \/ \E item \in 1..MaxItems, related_item \in 1..MaxItems, strength \in Amounts,
          position \in Encodings : T_AddRelatedItem(item, related_item, strength, position)
    \/ \E item \in 1..MaxItems, related_item \in 1..MaxItems :
          T_RemoveRelatedItem(item, related_item)
    \/ \E item \in 1..MaxItems, related_item \in 1..MaxItems, amount \in Amounts,
          position \in Encodings :
          T_IncreaseRelationshipStrength(item, related_item, amount, position)

SpecTable == Init /\ [][NextTable]_vars

\* ------------------------------ the program over a longer clock
\* Cortices that receive one and the same encoding, with the maintenance
\* calls in between, while the clock runs on to MaxCareTime.
\* Cortex.cleanup
K_Cleanup(s, delete_new_items) ==
    /\ error = NoErr
    /\ maintenance < MaxCareMaintenance
    /\ Commit(NM_cleanup(Cur, s, delete_new_items))
    /\ maintenance' = maintenance + 1
    /\ UNCHANGED <<received, timestep, store_calls, adjust_log>>

\* Database.cleanup
K_DbCleanup ==
    /\ error = NoErr
    /\ maintenance < MaxCareMaintenance
    /\ Commit(db_cleanup(Cur))
    /\ maintenance' = maintenance + 1
    /\ UNCHANGED <<received, timestep, store_calls, adjust_log>>

\* the brain's clock moves on
K_Tick ==
    /\ error = NoErr
    /\ timestep < MaxCareTime
    /\ timestep' = timestep + 1
    /\ UNCHANGED <<nodes, clusters, nodes_to_clusters, clusters_to_nodes,
                   node_manager_to_nodes, node_objs, cluster_objs, node_managers,
                   correlations, packet_queue, ignore_gaussian, name_counter,
                   error, received, maintenance, feedback_received,
                   store_calls, adjust_log>>

NextCare ==
    \/ \E s \in Streams, learn \in BOOLEAN, slot \in 1..MaxIds :
          ReceiveSensoryInput(s, CareEncoding, learn, slot)
    \/ \E s \in Streams, delete_new_items \in BOOLEAN : K_Cleanup(s, delete_new_items)
    \/ K_DbCleanup
    \/ K_Tick

SpecCare == Init /\ [][NextCare]_vars

\* ------------------------------------------- the program while it grows
\* Cortices that learn from every encoding at one timestep, long enough for
\* a node to gather the relations that create_new_nodes splits it by.
G_ReceiveSensoryInput(s, encoding, slot) ==
    /\ error = NoErr
    /\ SumSeq([i \in 1..Cardinality(Streams) |-> received[i]]) < MaxGrowEvents
    /\ slot \in IF Len(node_managers[s].nn_index) > 0
                THEN NearestSlots(node_managers[s].nn_index, encoding)
                ELSE {1}
    /\ LET w == receive_encoding(Cur, s, encoding, TRUE, slot)
       IN w.name_counter <= MaxGrowIds + 1 /\ Written(w)
    /\ received' = [received EXCEPT ![s] = @ + 1]
    /\ UNCHANGED <<timestep, maintenance, store_calls, adjust_log>>

\* Cortex.create_new_nodes
G_CreateNewNodes(s) ==
    /\ error = NoErr
    /\ maintenance < MaxMaintenance
    /\ LET w == create_new_nodes(Cur, s)
       IN w.name_counter <= MaxGrowIds + 1 /\ Written(w)
    /\ maintenance' = maintenance + 1
    /\ UNCHANGED <<received, timestep, store_calls, adjust_log>>

NextGrow ==
    \/ \E s \in Streams, encoding \in Encodings, slot \in 1..MaxGrowIds :
          G_ReceiveSensoryInput(s, encoding, slot)
    \/ \E s \in Streams : G_CreateNewNodes(s)

SpecGrow == Init /\ [][NextGrow]_vars

\* --------------------------- the program, with clusters deleted directly
\* Database._delete_cluster, called on any cluster while the cortices
\* receive encodings
D_DeleteCluster(cluster, force) ==
    /\ error = NoErr
    /\ maintenance < MaxMaintenance
    /\ cluster \in DOMAIN cluster_objs
    /\ Commit(_delete_cluster(Cur, cluster, force))
    /\ maintenance' = maintenance + 1
    /\ UNCHANGED <<received, timestep, store_calls, adjust_log>>

NextDelete ==
    \/ \E s \in Streams, encoding \in Encodings, learn \in BOOLEAN, slot \in 1..MaxIds :
          ReceiveSensoryInput(s, encoding, learn, slot)
    \/ \E cluster \in 1..MaxIds, force \in BOOLEAN : D_DeleteCluster(cluster, force)

SpecDelete == Init /\ [][NextDelete]_vars

\* ------------------------------------------------------- properties
\* OneToManyTable.verify_data_integrity, the sum of an item's strengths
WithinTolerance(strengths) == Abs(SumSeq(strengths) - ONE) <= ONE \div 100

Normalized(tbl) ==
    \A item \in DOMAIN tbl : Len(tbl[item].list) >= 1 => WithinTolerance(tbl[item].strengths)

\* C1 (P1, normalization): after any sequence of add_node, delete_node,
\* _delete_cluster, adjust_node_to_cluster_strength,
\* adjust_cluster_to_node_strength and cleanup calls, the strengths of every
\* node and of every cluster with at least one related item sum to within
\* 0.01 of 1.
C1_Normalization == Normalized(nodes_to_clusters) /\ Normalized(clusters_to_nodes)

\* a node with two clusters of unequal strengths, after an adjust call
C1_Witness ==
    /\ store_calls >= 1
    /\ error = NoErr
    /\ \E node \in DOMAIN nodes_to_clusters :
          /\ Len(nodes_to_clusters[node].list) >= 2
          /\ nodes_to_clusters[node].strengths[1] # nodes_to_clusters[node].strengths[2]

\* Database.verify_data_integrity, _cross_table_validation(table1, table2)
CrossTable(table1, table2) ==
    \A item \in DOMAIN table1 :
        \A i \in 1..Len(table1[item].list) :
            LET related_item == table1[item].list[i]
            IN related_item \in DOMAIN table2 /\ InSeq(item, table2[related_item].list)

\* the relations a table holds, over all its items
QtyRelations(tbl) ==
    LET keys == KeysInOrder(DOMAIN tbl)
    IN SumSeq([i \in 1..Len(keys) |-> Len(tbl[keys[i]].list)])

\* C2 (P2, mirror consistency): a node lists a cluster in nodes_to_clusters
\* exactly when the cluster lists the node in clusters_to_nodes, and the two
\* tables hold the same number of relations.
C2_Mirror ==
    /\ CrossTable(nodes_to_clusters, clusters_to_nodes)
    /\ CrossTable(clusters_to_nodes, nodes_to_clusters)
    /\ QtyRelations(nodes_to_clusters) = QtyRelations(clusters_to_nodes)

\* a relation made by an adjust call, on a cluster that has two nodes
C2_Witness ==
    /\ store_calls >= 1
    /\ error = NoErr
    /\ \E cluster \in DOMAIN clusters_to_nodes : Len(clusters_to_nodes[cluster].list) >= 2
    /\ \E node \in DOMAIN nodes_to_clusters : Len(nodes_to_clusters[node].list) >= 2

\* the tables of the store, as one value
Tables == <<nodes, clusters, nodes_to_clusters, clusters_to_nodes, node_manager_to_nodes>>

\* C3 (P3, no duplicates): add_related_item with a related item that the item
\* already has raises, and leaves the lists, strengths, positions and counts
\* of every table as they were.
C3_NoDuplicates ==
    [][\A item \in 1..MaxItems, related_item \in 1..MaxItems,
         strength \in Amounts, position \in Encodings :
          (/\ is_related(Cur, "nodes_to_clusters", item, related_item)
           /\ T_AddRelatedItem(item, related_item, strength, position))
          => (error' # NoErr /\ Tables' = Tables)]_vars

\* a call has raised on a relation that is there
C3_Witness ==
    /\ error = "Exception: The item is already related."
    /\ \E item \in DOMAIN nodes_to_clusters : Len(nodes_to_clusters[item].list) >= 2

\* a sequence without the element x
Without(seq, x) == SelectSeq(seq, LAMBDA y : y # x)

\* what a forced _delete_cluster leaves of a cluster and its nodes
Cascaded(cluster) ==
    /\ error' = NoErr
    /\ cluster \notin clusters'
    /\ cluster \notin DOMAIN clusters_to_nodes'
    /\ \A node \in DOMAIN nodes_to_clusters :
          IF InSeq(node, clusters_to_nodes[cluster].list)
          THEN IF Len(nodes_to_clusters[node].list) = 1
               THEN node \notin nodes' /\ node \notin DOMAIN nodes_to_clusters'
               ELSE /\ node \in nodes'
                    /\ node \in DOMAIN nodes_to_clusters'
                    /\ nodes_to_clusters'[node].list
                          = Without(nodes_to_clusters[node].list, cluster)
                    /\ Len(nodes_to_clusters'[node].list)
                          = Len(nodes_to_clusters[node].list) - 1
          ELSE /\ node \in DOMAIN nodes_to_clusters'
               /\ nodes_to_clusters'[node].list = nodes_to_clusters[node].list
               /\ (node \in nodes') = (node \in nodes)

\* C4 (P4, cascade deletion): _delete_cluster(cluster, force = True) on a
\* cluster of the store with N nodes takes the cluster out of clusters and
\* clusters_to_nodes, takes it out of the list of each of the N nodes, which
\* gets shorter by one, deletes each node whose list is then empty, and keeps
\* the others.
C4_CascadeDeletion ==
    [][\A cluster \in 1..MaxStoreNodes :
          (/\ cluster \in clusters
           /\ cluster \in DOMAIN clusters_to_nodes
           /\ S_DeleteCluster(cluster, TRUE))
          => Cascaded(cluster)]_vars

\* the position nodes_to_clusters keeps for the edge of a node to a cluster
EdgePosition(e) ==
    nodes_to_clusters[e[1]].position[IndexOf(e[2], nodes_to_clusters[e[1]].list)]

\* the observation count of the edge
EdgeCount(e) ==
    nodes_to_clusters[e[1]].count[IndexOf(e[2], nodes_to_clusters[e[1]].list)]

\* the stored position is the arithmetic mean of the logged positions
IsMeanOf(position, log) == Abs(Len(log) * position - SumSeq(log)) <= Len(log)

\* C7 (P7, running mean): for an edge made by add_node or by a first adjust
\* call, after three adjust_node_to_cluster_strength calls with the positions
\* p1, p2, p3 the position stored for the edge is (p1 + p2 + p3) / 3.
C7_RunningMean ==
    \A e \in DOMAIN adjust_log :
        Len(adjust_log[e]) = 3 => IsMeanOf(EdgePosition(e), adjust_log[e])

\* the same for the edges made by a first adjust call alone, whose count is
\* the number of the calls
C7_RunningMeanOfAdjusted ==
    \A e \in DOMAIN adjust_log :
        EdgeCount(e) = Len(adjust_log[e]) => IsMeanOf(EdgePosition(e), adjust_log[e])

\* three calls with unequal positions on an edge made by a first adjust call
C7_WitnessOfAdjusted ==
    \E e \in DOMAIN adjust_log :
        /\ Len(adjust_log[e]) = 3
        /\ EdgeCount(e) = 3
        /\ adjust_log[e][1] # adjust_log[e][3]

\* the packets of the queue a new packet of this timestep meets
QueuedAt(time) == SelectSeq(packet_queue, LAMBDA q : q.time = time)

\* the packets of the queue that come from another cortex than s
QueuedOfOthers(s) == SelectSeq(packet_queue, LAMBDA q : PacketCortex(Cur, q) # s)

\* this step is a receive_sensory_input call of cortex s with this learn
Received(s, learn) ==
    /\ received'[s] > received[s]
    /\ \E encoding \in Encodings, slot \in 1..MaxIds :
          ReceiveSensoryInput(s, encoding, learn, slot)

\* C5 (P5, non-self-correlation): when every packet queued at this timestep
\* comes from the cortex of the new packet, receiving the new packet leaves
\* the correlations of the CDZ as they were: _update_connection on two packets
\* of one cortex does nothing.
C5_NoSelfCorrelation ==
    [][\A s \in Streams :
          (/\ received'[s] > received[s]
           /\ \A i \in 1..Len(QueuedAt(timestep)) :
                 PacketCortex(Cur, QueuedAt(timestep)[i]) = s)
          => correlations' = correlations]_vars

\* two packets of one cortex and one timestep in the queue, the newer one
\* received by a call that learned
C5_Witness ==
    /\ error = NoErr
    /\ \E i \in 1..Len(packet_queue), j \in 1..Len(packet_queue) :
          /\ i < j
          /\ packet_queue[i].time = packet_queue[j].time
          /\ PacketCortex(Cur, packet_queue[i]) = PacketCortex(Cur, packet_queue[j])
          /\ packet_queue[i].source_node # packet_queue[j].source_node
          /\ node_objs[packet_queue[i].source_node].last_utilized = packet_queue[i].time

\* C6 (P6, temporal cutoff): with the window W = CE_CORRELATION_WINDOW_MAX
\* and the bell-shaped kernel, a packet received at time T with learn = True
\* makes no correlation update when the packets of the other cortices in the
\* queue are of time T - W or older, and makes one when such a packet is of
\* time T - (W - 1).
C6_TemporalCutoff ==
    [][\A s \in Streams :
          (Received(s, TRUE) /\ error' = NoErr)
          => LET others == QueuedOfOthers(s)
             IN /\ (\A i \in 1..Len(others) :
                        timestep - others[i].time >= CE_CORRELATION_WINDOW_MAX)
                    => correlations' = correlations
                /\ (\E i \in 1..Len(others) :
                        timestep - others[i].time = CE_CORRELATION_WINDOW_MAX - 1)
                    => correlations' # correlations]_vars

\* the connection of cluster a to cluster b is there and is a's strongest
StrongestOf(corr, a, b) ==
    /\ a \in DOMAIN corr
    /\ InSeq(b, ConnNames(corr[a].connections))
    /\ InSeq(b, corr[a].cluster_objects)
    /\ corr[a].connections[CC_strongest(corr[a])].name = b

\* C8 (Scenario B): from a CDZ without correlations, when the queue holds one
\* packet, of this timestep, and an encoding of another cortex is received
\* with learn = True, the record of each of the two clusters gets a
\* connection to the other, and get_strongest_correlation of each answers the
\* other.
C8_ScenarioB ==
    [][\A s \in Streams :
          (/\ correlations = <<>>
           /\ Len(packet_queue) = 1
           /\ Len(QueuedAt(timestep)) = 1
           /\ PacketCortex(Cur, QueuedAt(timestep)[1]) # s
           /\ Received(s, TRUE))
          => \E a \in DOMAIN correlations' :
                LET b == QueuedAt(timestep)[1].cluster
                IN /\ cluster_objs'[a].cortex = s
                   /\ DOMAIN correlations' = {a, b}
                   /\ StrongestOf(correlations', a, b)
                   /\ StrongestOf(correlations', b, a)]_vars

\* two packets of one timestep and two cortices, and the two records
C8_Witness ==
    /\ error = NoErr
    /\ Len(packet_queue) = 2
    /\ packet_queue[1].time = packet_queue[2].time
    /\ PacketCortex(Cur, packet_queue[1]) # PacketCortex(Cur, packet_queue[2])
    /\ DOMAIN correlations = {packet_queue[1].cluster, packet_queue[2].cluster}
    /\ StrongestOf(correlations, packet_queue[1].cluster, packet_queue[2].cluster)
    /\ StrongestOf(correlations, packet_queue[2].cluster, packet_queue[1].cluster)

\* the nodes and the clusters of a cortex that are in the store
StreamNodes(s) == {node \in nodes : node_objs[node].cortex = s}

StreamClusters(s) == {cluster \in clusters : cluster_objs[cluster].cortex = s}

\* a node and a cluster related to each other alone, with strength 1
Paired(node, cluster) ==
    /\ node \in DOMAIN nodes_to_clusters
    /\ cluster \in DOMAIN clusters_to_nodes
    /\ nodes_to_clusters[node].list = <<cluster>>
    /\ nodes_to_clusters[node].strengths = <<ONE>>
    /\ clusters_to_nodes[cluster].list = <<node>>
    /\ clusters_to_nodes[cluster].strengths = <<ONE>>

\* INITIAL_NODES nodes and as many clusters of the cortex, in pairs
Bootstrapped(s) ==
    /\ Cardinality(StreamNodes(s)) = INITIAL_NODES
    /\ Cardinality(StreamClusters(s)) = INITIAL_NODES
    /\ \A node \in StreamNodes(s) : \E cluster \in StreamClusters(s) : Paired(node, cluster)
    /\ \A cluster \in StreamClusters(s) : \E node \in StreamNodes(s) : Paired(node, cluster)

\* no feedback packet has reached a cluster of the cortex
NoFeedbackTo(s) ==
    \A cluster \in DOMAIN cluster_objs :
        cluster_objs[cluster].cortex = s => cluster_objs[cluster].last_feedback_packet = None

\* C9 (Scenario A), as the code has it: a cortex that has received exactly
\* INITIAL_NODES encodings, while no maintenance call has run and no feedback
\* packet has reached its clusters, has exactly INITIAL_NODES nodes and
\* INITIAL_NODES clusters in the store, each node paired with one cluster at
\* strength 1 in both directions.
C9_ScenarioA ==
    \A s \in Streams :
        (received[s] = INITIAL_NODES /\ maintenance = 0 /\ NoFeedbackTo(s))
        => Bootstrapped(s)

\* C9 as the specification words it: after exactly INITIAL_NODES encodings
\* (and before any maintenance call) the cortex has INITIAL_NODES nodes and
\* clusters in pairs, whatever the other cortex has received.
C9_ScenarioA_Original ==
    \A s \in Streams :
        (received[s] = INITIAL_NODES /\ maintenance = 0) => Bootstrapped(s)

\* a cortex after its INITIAL_NODES encodings, received while the other
\* cortex was fed as well
C9_Witness ==
    /\ error = NoErr
    /\ maintenance = 0
    /\ \E s \in Streams :
          /\ received[s] = INITIAL_NODES
          /\ NoFeedbackTo(s)
          /\ Bootstrapped(s)
          /\ \E t \in Streams \ {s} : received[t] >= 1

\* C10 (Scenario C), as the code has it: a node with no feedback packet
\* counted and last_utilized unset is new; a node that has received
\* NODE_IS_NEW + 1 feedback packets and has learned at least once
\* (last_utilized is set) is not new.
C10_ScenarioC ==
    \A node \in DOMAIN node_objs :
        /\ (node_objs[node].qty_feedback_packets = 0 /\ node_objs[node].last_utilized = None)
              => Node_is_new(Cur, node)
        /\ (feedback_received[node] >= NODE_IS_NEW + 1 /\ node_objs[node].last_utilized # None)
              => ~Node_is_new(Cur, node)

\* C10 as the specification words it: NODE_IS_NEW + 1 feedback packets
\* alone make a node not new.
C10_ScenarioC_Original ==
    \A node \in DOMAIN node_objs :
        /\ (node_objs[node].qty_feedback_packets = 0 /\ node_objs[node].last_utilized = None)
              => Node_is_new(Cur, node)
        /\ feedback_received[node] >= NODE_IS_NEW + 1 => ~Node_is_new(Cur, node)

\* a node that has learned and has received NODE_IS_NEW + 1 feedback packets
C10_Witness ==
    /\ error = NoErr
    /\ \E node \in nodes :
          /\ feedback_received[node] >= NODE_IS_NEW + 1
          /\ node_objs[node].last_utilized # None
          /\ ~Node_is_new(Cur, node)

\* C11 (Scenario D): a node that has neither learned nor received a feedback
\* packet since it was made is underutilized exactly from the timestep
\* created_at + NODE_REQUIRED_UTILIZATION on, and at no timestep before.
C11_ScenarioD ==
    \A node \in DOMAIN node_objs :
        (node_objs[node].last_utilized = None /\ feedback_received[node] = 0)
            => (Node_is_underutilized(Cur, node)
                   <=> timestep >= node_objs[node].created_at + NODE_REQUIRED_UTILIZATION)

\* an idle node at the very timestep it becomes underutilized
C11_Witness ==
    \E node \in nodes :
        /\ node_objs[node].last_utilized = None
        /\ feedback_received[node] = 0
        /\ timestep = node_objs[node].created_at + NODE_REQUIRED_UTILIZATION
        /\ Node_is_underutilized(Cur, node)

\* C12 (population cap): after any sequence of receive_encoding,
\* create_new_nodes and cleanup calls, a node manager has at most MAX_NODES
\* nodes.
C12_PopulationCap ==
    \A s \in Streams : Len(node_manager_to_nodes[s].list) <= MAX_NODES

\* a feedback packet has reached a node in this step
FeedbackDelivered ==
    \E n \in DOMAIN feedback_received' :
        feedback_received'[n] > (IF n \in DOMAIN feedback_received
                                 THEN feedback_received[n] ELSE 0)

\* C13 (feedback only across streams): a receive_sensory_input call delivers
\* a feedback packet only when it learns and meets a queued packet of this
\* timestep from another cortex; when the queued packets of this timestep all
\* come from the caller's own cortex, no feedback packet is delivered and the
\* call does not fail.
C13_FeedbackAcrossStreams ==
    [][\A s \in Streams, learn \in BOOLEAN :
          Received(s, learn)
          => LET met == QueuedAt(timestep)
                 others == SelectSeq(met, LAMBDA q : PacketCortex(Cur, q) # s)
             IN /\ FeedbackDelivered => (learn /\ Len(others) > 0)
                /\ (maintenance = 0 /\ Len(met) > 0 /\ Len(others) = 0)
                      => (~FeedbackDelivered /\ error' = NoErr)]_vars

HasEdge(corr, a, b) ==
    a \in DOMAIN corr /\ InSeq(b, ConnNames(corr[a].connections))

\* this step is a receive_sensory_input call of cortex s with learn = True
Learned(s) ==
    /\ received'[s] > received[s]
    /\ \E encoding \in Encodings, slot \in 1..MaxGrowIds :
          \/ ReceiveSensoryInput(s, encoding, TRUE, slot)
          \/ G_ReceiveSensoryInput(s, encoding, slot)

After == [node_objs |-> node_objs']

\* C16 (cleanup postcondition): Cortex.cleanup returns, and right after it no
\* node of the cortex is underutilized, and none is new when delete_new_items
\* was set; the nodes that were neither (underutilized, or new with
\* delete_new_items set) are all still there, and the others are gone.
C16_CleanupPostcondition ==
    [][\A s \in Streams, delete_new_items \in BOOLEAN :
          K_Cleanup(s, delete_new_items)
          => LET before == node_manager_to_nodes[s].list
                 after == node_manager_to_nodes'[s].list
                 evict(n) == \/ Node_is_underutilized(Cur, n)
                             \/ (delete_new_items /\ Node_is_new(Cur, n))
             IN /\ error' = NoErr
                /\ \A i \in 1..Len(after) :
                      /\ ~Node_is_underutilized(After, after[i])
                      /\ delete_new_items => ~Node_is_new(After, after[i])
                /\ after = SelectSeq(before, LAMBDA n : ~evict(n))
                /\ nodes' = nodes \ {before[i] : i \in {j \in 1..Len(before) : evict(before[j])}}]_vars

\* a cortex has lost a node to cleanup (delete_node leaves the node's own
\* cluster behind) and the nodes it keeps are neither underutilized nor new
C16_Witness ==
    /\ error = NoErr
    /\ maintenance >= 1
    /\ \E s \in Streams :
          /\ \E n \in DOMAIN node_objs :
                node_objs[n].cortex = s /\ n \notin nodes /\ n \in clusters
          /\ Len(node_manager_to_nodes[s].list) >= 1
          /\ \A i \in 1..Len(node_manager_to_nodes[s].list) :
                /\ ~Node_is_underutilized(Cur, node_manager_to_nodes[s].list[i])
                /\ ~Node_is_new(Cur, node_manager_to_nodes[s].list[i])

\* nothing of the CDZ names the cluster
Forgotten(corr, cluster) ==
    /\ cluster \notin DOMAIN corr
    /\ \A c \in DOMAIN corr :
          /\ ~InSeq(cluster, ConnNames(corr[c].connections))
          /\ ~InSeq(cluster, corr[c].cluster_objects)
          /\ ~InSeq(cluster, corr[c].ref_clusters)

\* C17 (removal from the CDZ): when a call that deletes clusters returns, the
\* CDZ has no record of a deleted cluster, and no record of another cluster
\* has it as a connection, as a cluster object or as a reference.
C17_RemovedFromCDZ ==
    [][(clusters' # clusters /\ clusters' \subseteq clusters /\ error' = NoErr)
          => \A cluster \in clusters \ clusters' : Forgotten(correlations', cluster)]_vars

\* a cluster is gone, and a record that had been updated has no connection
\* left: the connection to the deleted cluster was taken out of it
C17_Witness ==
    /\ error = NoErr
    /\ \E cluster \in DOMAIN cluster_objs :
          cluster \notin clusters /\ Forgotten(correlations, cluster)
    /\ \E c \in DOMAIN correlations :
          correlations[c].age > 1 /\ Len(correlations[c].connections) = 0

\* C18 (non-forced deletion): _delete_cluster(cluster, force = False) on a
\* cluster that has a node fails, and db.nodes, db.clusters, the three
\* relation tables and the correlations of the CDZ are as they were.
C18_NonForcedDeletion ==
    [][\A cluster \in DOMAIN cluster_objs :
          (/\ D_DeleteCluster(cluster, FALSE)
           /\ cluster \in DOMAIN clusters_to_nodes
           /\ Len(clusters_to_nodes[cluster].list) >= 1)
          => /\ error' = "AssertionError"
             /\ nodes' = nodes
             /\ clusters' = clusters
             /\ Tables' = Tables
             /\ correlations' = correlations]_vars

\* the one direct call has failed on its assertion with every cluster still
\* in place, in a CDZ that has correlations
C18_Witness ==
    /\ error = "AssertionError"
    /\ maintenance = 1
    /\ clusters = DOMAIN cluster_objs
    /\ correlations # <<>>

\* ------------------------------- the two normalizations, called directly
\* The weight lists handed to a normalization: any weights, of any sign.
WeightLists == UNION {[1..n -> Weighings] : n \in 1..MaxWeights}

\* the item of the table and the cluster of the record that are normalized
NormalizedItem == CHOOSE item \in 1..MaxWeights : TRUE

\* A table with one item related to Len(s) items with the strengths s, and a
\* record with Len(c) connections with the weights c.
InitNormalize ==
    /\ nodes = {}
    /\ clusters = {}
    /\ nodes_to_clusters \in
          {Put(<<>>, NormalizedItem,
               Entry([i \in 1..Len(s) |-> i], s, [i \in 1..Len(s) |-> None],
                     [i \in 1..Len(s) |-> 1])) : s \in WeightLists}
    /\ clusters_to_nodes = <<>>
    /\ node_manager_to_nodes = [s \in Streams |-> Entry(<<>>, <<>>, <<None>>, <<1>>)]
    /\ node_objs = <<>>
    /\ cluster_objs = <<>>
    /\ node_managers = [s \in Streams |-> NodeManager_init]
    /\ correlations \in
          {Put(<<>>, NormalizedItem,
               [age |-> 1,
                connections |-> [i \in 1..Len(c) |-> [name |-> i, w |-> c[i]]],
                cluster_objects |-> [i \in 1..Len(c) |-> i],
                ref_clusters |-> <<>>]) : c \in WeightLists}
    /\ packet_queue = <<>>
    /\ ignore_gaussian = TRUE
    /\ timestep = 0
    /\ name_counter = 1
    /\ error = NoErr
    /\ received = [s \in Streams |-> 0]
    /\ maintenance = 0
    /\ feedback_received = <<>>
    /\ store_calls = 0
    /\ adjust_log = <<>>

\* OneToManyTable._normalize_item on the item
N_NormalizeItem ==
    /\ store_calls < MaxNormalizeCalls
    /\ Commit(_normalize_item(Called, "nodes_to_clusters", NormalizedItem))
    /\ store_calls' = store_calls + 1
    /\ StoreFrame
    /\ UNCHANGED adjust_log

\* ClusterCorrelation._normalize on the record's connections
N_NormalizeRecord ==
    /\ store_calls < MaxNormalizeCalls
    /\ Commit([Called EXCEPT !.correlations[NormalizedItem].connections = CC_normalize(@)])
    /\ store_calls' = store_calls + 1
    /\ StoreFrame
    /\ UNCHANGED adjust_log

NextNormalize == N_NormalizeItem \/ N_NormalizeRecord

SpecNormalize == InitNormalize /\ [][NextNormalize]_vars

\* the total of the item's strengths, and of the record's weights
StrengthTotal == SumSeq(nodes_to_clusters[NormalizedItem].strengths)

WeightTotal == SumSeq(Weights(correlations[NormalizedItem].connections))

cdz_call(w, s, encoding, learn, slot) ==
    LET w1 == _add_initial_nodes(w, s, encoding)
        found == _find_nearest_node(w1, s, encoding, slot)
        nearest_node == found.node
        none == DataPacket(None, ONE, timestep, None)
    IN IF w1.error # NoErr THEN [w |-> w1, packet |-> none]
       ELSE IF found.error # NoErr THEN [w |-> Raise(w1, found.error), packet |-> none]
       ELSE LET w2 == [w1 EXCEPT !.node_objs[nearest_node].last_encoding = encoding]
            IN IF Node_strengths_error(w2, nearest_node) # NoErr
               THEN [w |-> Raise(w2, Node_strengths_error(w2, nearest_node)), packet |-> none]
               ELSE LET cluster == Node_get_strongest_cluster(w2, nearest_node)
                        w3 == [w2 EXCEPT !.node_managers[s].last_fired_node = nearest_node]
                        w4 == IF learn
                              THEN [Node_learn(w3, nearest_node, encoding)
                                       EXCEPT !.node_managers[s].distance_count = @ + 1]
                              ELSE w3
                        w5 == IF w4.error # NoErr THEN w4
                              ELSE [w4 EXCEPT !.cluster_objs[cluster].last_fired = timestep]
                        w6 == IF learn
                              THEN adjust_cluster_to_node_strength(w5, cluster, nearest_node,
                                                                   CLUSTER_NODE_LEARNING_RATE)
                              ELSE w5
                    IN [w |-> w6, packet |-> DataPacket(cluster, ONE, timestep, nearest_node)]

\* the packet's cluster has a record with at least one connection
HasCorrelation(w, packet) ==
    /\ packet.cluster \in DOMAIN w.correlations
    /\ Len(w.correlations[packet.cluster].connections) >= 1

\* The loop of CDZ.receive_packet, followed call by call: some call of
\* _send_feedback_packet is made for a packet whose cluster has no record or
\* a record without connections.
RECURSIVE feedback_without_correlation(_, _, _, _)
feedback_without_correlation(w, queue, packet, learn) ==
    IF w.error # NoErr \/ Len(queue) = 0 THEN FALSE
    ELSE LET q_packet == Head(queue)
         IN IF (packet.time - q_packet.time) >= CE_CORRELATION_WINDOW_MAX THEN FALSE
            ELSE IF packet.time = q_packet.time /\ learn
            THEN LET w1 == _update_connection(_update_connection(w, q_packet, packet),
                                              packet, q_packet)
                     w2 == _send_feedback_packet(w1, q_packet)
                     w3 == _send_feedback_packet(w2, packet)
                 IN \/ (w1.error = NoErr /\ ~HasCorrelation(w1, q_packet))
                    \/ (w2.error = NoErr /\ ~HasCorrelation(w2, packet))
                    \/ feedback_without_correlation(w3, Tail(queue), packet, learn)
            ELSE feedback_without_correlation(w, Tail(queue), packet, learn)

\* C20 (EmptyCorrelation precondition): in every receive_sensory_input call
\* that reaches the CDZ, _send_feedback_packet is called only for a packet
\* whose cluster has a correlation record with at least one connection.
C20_EmptyCorrelationPrecondition ==
    [][\A s \in Streams, encoding \in Encodings, learn \in BOOLEAN, slot \in 1..MaxIds :
          ReceiveSensoryInput(s, encoding, learn, slot)
          => LET call == cdz_call(Cur, s, encoding, learn, slot)
             IN call.w.error = NoErr
                => ~feedback_without_correlation(call.w, call.w.packet_queue,
                                                 call.packet, learn)]_vars

\* the nodes a cluster is related to in clusters_to_nodes
ClusterNodes(c2n, cluster) == IF cluster \in DOMAIN c2n THEN c2n[cluster].list ELSE <<>>

\* C21 (node eviction cascades to groupings): a call that returns and has
\* deleted a node leaves no cluster in the store that had a node before the
\* call and has none after it.
C21_EvictionCascade ==
    [][(nodes \ nodes' # {} /\ error' = NoErr)
          => \A cluster \in clusters' \cap clusters :
                Len(ClusterNodes(clusters_to_nodes, cluster)) >= 1
                => Len(ClusterNodes(clusters_to_nodes', cluster)) >= 1]_vars

\* The nodes a split makes out of the nodes of `split`: <<node, idx>> for
\* each edge idx of the node seen more than SPLIT_MIN_COUNT times, and
\* <<node, 0>> for the node's own position.
SplitOff(split) ==
    {x \in split \X (0..MaxGrowIds) :
        \/ x[2] = 0
        \/ /\ x[2] <= Len(nodes_to_clusters[x[1]].list)
           /\ nodes_to_clusters[x[1]].count[x[2]] > SPLIT_MIN_COUNT}

\* the position of the node made for <<node, idx>>
SplitPosition(x) ==
    IF x[2] = 0 THEN node_objs[x[1]].position ELSE nodes_to_clusters[x[1]].position[x[2]]

\* C22 (split of one node): a create_new_nodes call that returns has, for
\* each node it removed, made one node with its cluster at the stored
\* position of each edge of that node seen more than 3 times and one at the
\* node's own position, and nothing else; each new node and its cluster are
\* related to each other only, with strength 1; the cortex's list grows by
\* the number of those edges.
C22_SplitOfOneNode ==
    [][\A s \in Streams :
          (G_CreateNewNodes(s) /\ error' = NoErr)
          => LET split == nodes \ nodes'
                 made == nodes' \ nodes
             IN /\ Cardinality(made) = Cardinality(SplitOff(split))
                /\ Len(node_manager_to_nodes'[s].list)
                      = Len(node_manager_to_nodes[s].list)
                        + Cardinality(SplitOff(split)) - Cardinality(split)
                /\ \A x \in SplitOff(split) :
                      \E node \in made : node_objs'[node].position = SplitPosition(x)
                /\ \A node \in made :
                      /\ \E x \in SplitOff(split) : node_objs'[node].position = SplitPosition(x)
                      /\ InSeq(node, node_manager_to_nodes'[s].list)
                      /\ node \in clusters'
                      /\ nodes_to_clusters'[node].list = <<node>>
                      /\ nodes_to_clusters'[node].strengths = <<ONE>>
                      /\ clusters_to_nodes'[node].list = <<node>>
                      /\ clusters_to_nodes'[node].strengths = <<ONE>>
                /\ \A node \in split :
                      /\ node \notin DOMAIN nodes_to_clusters'
                      /\ ~InSeq(node, node_manager_to_nodes'[s].list)]_vars

\* create_new_nodes has split one node of a cortex by two of its edges: the
\* cortex has two nodes more than before, above MAX_NODES.
C22_Witness ==
    /\ maintenance = 1
    /\ error = NoErr
    /\ Cardinality(DOMAIN node_objs \ nodes) = 1
    /\ \E s \in Streams : Len(node_manager_to_nodes[s].list) = MAX_NODES + 1

SplitGain(split) == Cardinality(SplitOff(split)) - Cardinality(split)

\* C24 (bounded overshoot of the cap): in a create_new_nodes call that
\* starts below MAX_NODES and returns, every node that is split is split
\* while the cortex is below MAX_NODES and the nodes added so far in the
\* call are below NODE_SPLIT_MAX_QTY; the cortex ends with at most MAX_NODES
\* nodes plus the number of edges seen more than 3 times of the last node
\* that was split.
C24_BoundedOvershoot ==
    [][\A s \in Streams :
          (/\ G_CreateNewNodes(s)
           /\ Len(node_manager_to_nodes[s].list) < MAX_NODES
           /\ error' = NoErr)
          => LET split == nodes \ nodes'
                 sorted == SortByVariance(Cur, NM_nodes(Cur, s))
                 Before(node) ==
                     {m \in split : IndexOf(m, sorted) < IndexOf(node, sorted)}
             IN /\ \A node \in split :
                      /\ Len(node_manager_to_nodes[s].list) + SplitGain(Before(node))
                            < MAX_NODES
                      /\ SplitGain(Before(node)) < NODE_SPLIT_MAX_QTY
                /\ split = {} =>
                      Len(node_manager_to_nodes'[s].list) = Len(node_manager_to_nodes[s].list)
                /\ \A last \in split :
                      Before(last) \cup {last} = split
                      => Len(node_manager_to_nodes'[s].list)
                            <= MAX_NODES + SplitGain({last})]_vars

\* create_new_nodes has returned with a cortex above MAX_NODES
C24_Witness ==
    /\ maintenance = 1
    /\ error = NoErr
    /\ DOMAIN node_objs \ nodes # {}
    /\ \E s \in Streams : Len(node_manager_to_nodes[s].list) > MAX_NODES

\* ------------------------- the program, with connections updated directly
\* CDZ._update_connection, called on two packets of the queue while the
\* cortices receive encodings
U_UpdateConnection(old, new) ==
    /\ store_calls < MaxConnectCalls
    /\ old \in 1..Len(packet_queue)
    /\ new \in 1..Len(packet_queue)
    /\ old # new
    /\ Commit(_update_connection(Called, packet_queue[old], packet_queue[new]))
    /\ store_calls' = store_calls + 1
    /\ StoreFrame
    /\ UNCHANGED adjust_log

NextConnect ==
    \/ \E s \in Streams, encoding \in Encodings, learn \in BOOLEAN, slot \in 1..MaxIds :
          ReceiveSensoryInput(s, encoding, learn, slot)
    \/ \E old \in 1..MaxEvents, new \in 1..MaxEvents : U_UpdateConnection(old, new)

SpecConnect == Init /\ [][NextConnect]_vars

\* a cluster's record, as ClusterCorrelation(cluster, cdz) makes it when
\* there is none
RecordOf(corr, cluster) ==
    IF cluster \in DOMAIN corr THEN corr[cluster] ELSE ClusterCorrelation_init

\* the weight of the connection from a to b, 0 when there is none
WeightOf(corr, a, b) ==
    LET conns == RecordOf(corr, a).connections
    IN IF InSeq(b, ConnNames(conns)) THEN conns[IndexOf(b, ConnNames(conns))].w ELSE 0

\* C25 (effect of one _update_connection between different cortices): the
\* call returns; the old cluster's record has a connection to the new
\* cluster that is not weaker than before, and is one older (a record made
\* by the call starts at age 1); the old cluster is once in the new cluster's
\* ref_clusters; the new cluster's record keeps its connections and its age;
\* no other record changes.
C25_UpdateConnection ==
    [][\A old \in 1..MaxEvents, new \in 1..MaxEvents :
          (/\ U_UpdateConnection(old, new)
           /\ PacketCortex(Cur, packet_queue[old]) # PacketCortex(Cur, packet_queue[new]))
          => LET a == packet_queue[old].cluster
                 b == packet_queue[new].cluster
             IN /\ error' = NoErr
                /\ a \in DOMAIN correlations'
                /\ b \in DOMAIN correlations'
                /\ HasEdge(correlations', a, b)
                /\ WeightOf(correlations', a, b) > 0
                /\ WeightOf(correlations', a, b) >= WeightOf(correlations, a, b)
                /\ correlations'[a].age = RecordOf(correlations, a).age + 1
                /\ correlations'[a].ref_clusters = RecordOf(correlations, a).ref_clusters
                /\ Len(SelectSeq(correlations'[b].ref_clusters, LAMBDA c : c = a)) = 1
                /\ correlations'[b].connections = RecordOf(correlations, b).connections
                /\ correlations'[b].cluster_objects = RecordOf(correlations, b).cluster_objects
                /\ correlations'[b].age = RecordOf(correlations, b).age
                /\ \A c \in DOMAIN correlations' \ {a, b} :
                      c \in DOMAIN correlations /\ correlations'[c] = correlations[c]]_vars

\* One _update_connection call has made both records: the old cluster's
\* record, of age 2, with its one connection, and the new cluster's record,
\* of age 1, with the reference and no connection.
C25_Witness ==
    /\ store_calls >= 1
    /\ error = NoErr
    /\ \E a \in DOMAIN correlations, b \in DOMAIN correlations :
          /\ correlations[a].age = 2
          /\ ConnNames(correlations[a].connections) = <<b>>
          /\ correlations[b].age = 1
          /\ correlations[b].connections = <<>>
          /\ correlations[b].ref_clusters = <<a>>

\* C26 (correlation weights stay normalized): every record of the CDZ with
\* at least one connection has weights that sum to 1, up to the rounding of
\* each weight to a thousandth.
C26_CorrelationsNormalized ==
    \A cluster \in DOMAIN correlations :
        Len(correlations[cluster].connections) >= 1
        => Abs(SumSeq(Weights(correlations[cluster].connections)) - ONE)
              <= Len(correlations[cluster].connections)

\* Three encodings were received, one by a cortex and two by the other, which
\* fired two clusters; the record of the first cortex's cluster was updated
\* by both, and one of the two clusters has been deleted since: the record
\* is left with one connection.
C26_Witness ==
    /\ maintenance = 1
    /\ error = NoErr
    /\ SumSeq([i \in 1..Cardinality(Streams) |-> received[i]]) = 3
    /\ \E a \in DOMAIN correlations, gone \in DOMAIN cluster_objs \ clusters, other \in clusters :
          /\ cluster_objs[gone].cortex # cluster_objs[a].cortex
          /\ cluster_objs[other].cortex = cluster_objs[gone].cortex
          /\ cluster_objs[gone].last_fired # None
          /\ cluster_objs[other].last_fired # None
          /\ received[cluster_objs[a].cortex] = 1
          /\ correlations[a].age = 3
          /\ ConnNames(correlations[a].connections) = <<other>>

\* ---------------------- the program, with feedback packets delivered directly
\* Cluster.receive_feedback_packet, called on a cluster of the store with a
\* packet of that cluster while the cortices receive encodings and the clock
\* moves on
F_ReceiveFeedbackPacket(cluster, strength, source_node) ==
    /\ store_calls < MaxFeedbackCalls
    /\ cluster \in clusters
    /\ source_node \in nodes
    /\ Commit(Cluster_receive_feedback_packet(Called, cluster,
                  DataPacket(cluster, strength, timestep, source_node)))
    /\ store_calls' = store_calls + 1
    /\ StoreFrame
    /\ UNCHANGED adjust_log

NextFeedback ==
    \/ \E s \in Streams, encoding \in Encodings, learn \in BOOLEAN, slot \in 1..MaxIds :
          /\ SumSeq([i \in 1..Cardinality(Streams) |-> received[i]]) < MaxFeedbackEvents
          /\ ReceiveSensoryInput(s, encoding, learn, slot)
    \/ Tick
    \/ \E cluster \in 1..MaxIds, strength \in FeedbackStrengths, source_node \in 1..MaxIds :
          F_ReceiveFeedbackPacket(cluster, strength, source_node)

SpecFeedback == Init /\ [][NextFeedback]_vars

\* the strength of the relation of an item to a related item, 0 without one
StrengthTo(table, item, related_item) ==
    IF item \in DOMAIN table /\ InSeq(related_item, table[item].list)
    THEN table[item].strengths[IndexOf(related_item, table[item].list)]
    ELSE 0

\* C27 (feedback routing): a feedback packet delivered to a cluster of a
\* cortex is accepted; the cluster's last_feedback_packet is the timestep;
\* the node of that cortex that fired last is related to the cluster in both
\* tables, with a strength in nodes_to_clusters that is not below the one
\* before, and has one feedback packet more; every other node keeps its
\* object and its entry of nodes_to_clusters, and every other cluster its
\* entry of clusters_to_nodes.
C27_FeedbackRouting ==
    [][\A cluster \in clusters, strength \in FeedbackStrengths, source_node \in nodes :
          F_ReceiveFeedbackPacket(cluster, strength, source_node)
          => LET s == cluster_objs[cluster].cortex
                 node == node_managers[s].last_fired_node
             IN /\ error' = NoErr
                /\ cluster_objs'[cluster].last_feedback_packet = timestep
                /\ node \in nodes
                /\ InSeq(cluster, nodes_to_clusters'[node].list)
                /\ InSeq(node, clusters_to_nodes'[cluster].list)
                /\ StrengthTo(nodes_to_clusters', node, cluster) > 0
                /\ StrengthTo(nodes_to_clusters', node, cluster)
                      >= StrengthTo(nodes_to_clusters, node, cluster)
                /\ node_objs'[node].qty_feedback_packets
                      = node_objs[node].qty_feedback_packets + 1
                /\ node_objs' = [node_objs EXCEPT ![node].qty_feedback_packets = @ + 1]
                /\ \A other \in DOMAIN nodes_to_clusters \ {node} :
                      nodes_to_clusters'[other] = nodes_to_clusters[other]
                /\ DOMAIN nodes_to_clusters' = DOMAIN nodes_to_clusters
                /\ \A other \in DOMAIN clusters_to_nodes \ {cluster} :
                      clusters_to_nodes'[other] = clusters_to_nodes[other]]_vars

\* A feedback packet delivered at timestep 1 has made a relation: a node
\* that never had a feedback packet before has its first and is related to
\* a second cluster, which has it as its second node.
C27_Witness ==
    /\ store_calls = 1
    /\ error = NoErr
    /\ timestep = 1
    /\ \E node \in nodes, cluster \in clusters :
          /\ cluster # node
          /\ cluster_objs[cluster].last_feedback_packet = 1
          /\ node_objs[node].qty_feedback_packets = 1
          /\ Len(nodes_to_clusters[node].list) = 2
          /\ nodes_to_clusters[node].list[2] = cluster
          /\ clusters_to_nodes[cluster].list = <<cluster, node>>

\* C28 (learn = False is read-only for what was learned): a
\* receive_sensory_input call without learn leaves every entry that
\* nodes_to_clusters and clusters_to_nodes had as it was, every node object
\* as it was but for last_encoding, every cluster object as it was but for
\* last_fired, the correlation records as they were, and no feedback packet
\* delivered; of its node manager it changes last_fired_node and the end of
\* the initial phase only; when it returns, its packet is the one new
\* packet of the queue.
C28_ReadOnlyWithoutLearn ==
    [][\A s \in Streams :
          Received(s, FALSE)
          => /\ \A node \in DOMAIN nodes_to_clusters :
                   /\ node \in DOMAIN nodes_to_clusters'
                   /\ nodes_to_clusters'[node] = nodes_to_clusters[node]
             /\ \A cluster \in DOMAIN clusters_to_nodes :
                   /\ cluster \in DOMAIN clusters_to_nodes'
                   /\ clusters_to_nodes'[cluster] = clusters_to_nodes[cluster]
             /\ \A node \in DOMAIN node_objs :
                   node_objs'[node]
                     = [node_objs[node] EXCEPT !.last_encoding = node_objs'[node].last_encoding]
             /\ \A cluster \in DOMAIN cluster_objs :
                   cluster_objs'[cluster]
                     = [cluster_objs[cluster] EXCEPT !.last_fired = cluster_objs'[cluster].last_fired]
             /\ correlations' = correlations
             /\ ~FeedbackDelivered
             /\ \A o \in Streams \ {s} : node_managers'[o] = node_managers[o]
             /\ node_managers'[s]
                   = [node_managers[s] EXCEPT
                         !.last_fired_node = node_managers'[s].last_fired_node,
                         !.finished_initial = node_managers'[s].finished_initial]
             /\ error' = NoErr
                   => /\ packet_queue' = appendleft(packet_queue, Head(packet_queue'))
                      /\ Head(packet_queue').time = timestep
                      /\ Head(packet_queue').source_node = node_managers'[s].last_fired_node
                      /\ node_objs'[Head(packet_queue').source_node].last_encoding # None
                      /\ cluster_objs'[Head(packet_queue').cluster].last_fired = timestep]_vars

\* Two cortices have learned a correlation, and the newest packet of the
\* queue was received without learn: the packet of the other cortex queued
\* before it at the same timestep has a record without a connection to it.
C28_Witness ==
    /\ error = NoErr
    /\ maintenance = 0
    /\ correlations # <<>>
    /\ Len(packet_queue) >= 2
    /\ packet_queue[1].time = packet_queue[2].time
    /\ PacketCortex(Cur, packet_queue[1]) # PacketCortex(Cur, packet_queue[2])
    /\ packet_queue[2].cluster \in DOMAIN correlations
    /\ ~HasEdge(correlations, packet_queue[2].cluster, packet_queue[1].cluster)

\* the clusters Database.cleanup finds underutilized
Underutilized == {cluster \in DOMAIN clusters_to_nodes : Cluster_is_underutilized(Cur, cluster)}

\* C29 (the sweep of underutilized clusters): Database.cleanup returns, and
\* after it the store holds the clusters it held without those that were
\* underutilized when it began; a node is deleted only if all its clusters
\* were among them.
C29_Sweep ==
    [][K_DbCleanup
          => /\ error' = NoErr
             /\ clusters' = clusters \ Underutilized
             /\ DOMAIN clusters_to_nodes' = DOMAIN clusters_to_nodes \ Underutilized
             /\ \A node \in nodes \ nodes' :
                   \A i \in 1..Len(nodes_to_clusters[node].list) :
                      nodes_to_clusters[node].list[i] \in Underutilized]_vars

\* the nodes that were made with a cluster of their name at one timestep and
\* whose node and cluster have not been used since: no learn has stamped the
\* node, no firing and no feedback packet has stamped the cluster
UnusedPairs ==
    {node \in DOMAIN node_objs \cap DOMAIN cluster_objs :
        LET n == node_objs[node]
            c == cluster_objs[node]
        IN /\ n.created_at = c.created_at
           /\ n.last_utilized = None
           /\ c.last_fired = None
           /\ c.last_feedback_packet = None}

\* C30 (clusters go stale before nodes): for a node and the cluster made with
\* it that have not been used since, the node is never underutilized while
\* the cluster is not, and CLUSTER_REQUIRED_UTILIZATION timesteps after their
\* creation the cluster is underutilized and the node is not yet.
C30_ClustersStaleFirst ==
    \A node \in UnusedPairs :
       /\ Node_is_underutilized(Cur, node) => Cluster_is_underutilized(Cur, node)
       /\ timestep - node_objs[node].created_at = CLUSTER_REQUIRED_UTILIZATION
             => /\ Cluster_is_underutilized(Cur, node)
                /\ ~Node_is_underutilized(Cur, node)

\* An unused pair at the timestep where its cluster has just become
\* underutilized, and an unused pair whose node is underutilized too.
C30_Witness ==
    /\ \E node \in UnusedPairs :
          /\ timestep - node_objs[node].created_at = CLUSTER_REQUIRED_UTILIZATION
          /\ Cluster_is_underutilized(Cur, node)
    /\ \E node \in UnusedPairs : Node_is_underutilized(Cur, node)

\* the feedback packets handed to nodes so far
FeedbackTotal(fr) ==
    LET keys == KeysInOrder(DOMAIN fr)
    IN SumSeq([i \in 1..Len(keys) |-> fr[keys[i]]])

\* how many packets the loop of CDZ.receive_packet goes through before it
\* breaks at an expired one
Scanned ==
    Cardinality({i \in 1..Len(packet_queue) :
                    \A j \in 1..i :
                       (timestep - packet_queue[j].time) < CE_CORRELATION_WINDOW_MAX})

\* C31 (run to completion): one receive_sensory_input call hands at most two
\* feedback packets to nodes for each queued packet it scans, and puts at
\* most one packet into the queue: a feedback packet leads to no further
\* packet of either kind.
C31_RunToCompletion ==
    [][\A s \in Streams, learn \in BOOLEAN :
          Received(s, learn)
          => /\ FeedbackTotal(feedback_received') - FeedbackTotal(feedback_received)
                   <= 2 * Scanned
             /\ Len(packet_queue') <= Len(packet_queue) + 1
             /\ error' = NoErr
                   => /\ Len(packet_queue') >= 1
                      /\ \A i \in 2..Len(packet_queue') :
                            packet_queue'[i] = packet_queue[i - 1]]_vars

\* A call has met a packet of another cortex at its timestep and two feedback
\* packets have reached nodes.
C31_Witness ==
    /\ error = NoErr
    /\ Len(packet_queue) >= 2
    /\ packet_queue[1].time = packet_queue[2].time
    /\ PacketCortex(Cur, packet_queue[1]) # PacketCortex(Cur, packet_queue[2])
    /\ FeedbackTotal(feedback_received) = 2

\* the items of a list
Items(list) == {list[i] : i \in 1..Len(list)}

\* C32 (referential integrity of the store): after the calls that returned,
\* db.nodes, the keys of nodes_to_clusters and the lists of
\* node_manager_to_nodes hold the same nodes, db.clusters and the keys of
\* clusters_to_nodes hold the same clusters, and every item of a list of
\* either table is in its identity table.
C32_ReferentialIntegrity ==
    error = NoErr
    => /\ DOMAIN nodes_to_clusters = nodes
       /\ UNION {Items(node_manager_to_nodes[s].list) : s \in Streams} = nodes
       /\ DOMAIN clusters_to_nodes = clusters
       /\ \A node \in DOMAIN nodes_to_clusters :
             Items(nodes_to_clusters[node].list) \subseteq clusters
       /\ \A cluster \in DOMAIN clusters_to_nodes :
             Items(clusters_to_nodes[cluster].list) \subseteq nodes

\* C33 (feedback reaches only live nodes): a node that a step hands a
\* feedback packet to is the last_fired_node of its cortex and is in db.nodes.
C33_FeedbackToLiveNodes ==
    [][\A node \in DOMAIN feedback_received' :
          feedback_received'[node] > (IF node \in DOMAIN feedback_received
                                      THEN feedback_received[node] ELSE 0)
          => /\ node_managers'[node_objs'[node].cortex].last_fired_node = node
             /\ node \in nodes']_vars

\* the clusters the CDZ names: the owners of the records, and in each record
\* the connections, the cluster objects and the references
NamedByCDZ(corr) ==
    DOMAIN corr
    \cup UNION {Items(ConnNames(corr[c].connections)) : c \in DOMAIN corr}
    \cup UNION {Items(corr[c].cluster_objects) : c \in DOMAIN corr}
    \cup UNION {Items(corr[c].ref_clusters) : c \in DOMAIN corr}

\* C34 (the CDZ names only live clusters): every cluster that owns a record
\* of the CDZ or is a connection, a cluster object or a reference of a record
\* is in db.clusters.
C34_CDZLiveClusters == NamedByCDZ(correlations) \subseteq clusters

\* A cluster has been deleted while a packet of it is still in the queue, and
\* a later call has put the packet of a cluster with a record before it.
C34_Witness ==
    /\ error = NoErr
    /\ Len(packet_queue) >= 2
    /\ packet_queue[1].cluster \in DOMAIN correlations
    /\ \E i \in 2..Len(packet_queue) :
          /\ packet_queue[i].cluster \notin clusters
          /\ packet_queue[i].time < packet_queue[1].time

\* C35 (references mirror connections): cluster x is a reference of the
\* record of cluster y exactly when y is a connection of the record of x,
\* in every record the names of the connections are the cluster objects, and
\* CDZ.remove_cluster of a cluster with a record does not raise.
C35_BackReferences ==
    /\ \A x \in clusters \cup NamedByCDZ(correlations),
          y \in clusters \cup NamedByCDZ(correlations) :
          (y \in DOMAIN correlations /\ InSeq(x, correlations[y].ref_clusters))
          <=> (x \in DOMAIN correlations
               /\ InSeq(y, ConnNames(correlations[x].connections)))
    /\ \A c \in DOMAIN correlations :
          Items(ConnNames(correlations[c].connections))
             = Items(correlations[c].cluster_objects)
    /\ \A c \in DOMAIN correlations : CDZ_remove_cluster(Called, c).error = NoErr

\* A cluster with a record has been deleted, and of the records that are left
\* one has a connection and one has a reference.
C35_Witness ==
    /\ error = NoErr
    /\ DOMAIN cluster_objs \ clusters # {}
    /\ \E x \in DOMAIN correlations, y \in DOMAIN correlations :
          /\ InSeq(y, ConnNames(correlations[x].connections))
          /\ InSeq(x, correlations[y].ref_clusters)

\* C36 (every live node has a cluster): every node of db.nodes has an entry
\* in nodes_to_clusters with at least one cluster, so get_strongest_cluster,
\* correlation_variance and certainty have strengths to work on.
C36_NodeHasCluster ==
    \A node \in nodes :
       /\ node \in DOMAIN nodes_to_clusters
       /\ Len(nodes_to_clusters[node].list) >= 1
       /\ Node_strengths_error(Cur, node) = NoErr

\* The cluster made with a live node has been deleted by force, and the node
\* lives on with the cluster a feedback packet has given it.
C36_Witness ==
    /\ error = NoErr
    /\ \E node \in nodes :
          /\ node \notin clusters
          /\ Len(nodes_to_clusters[node].list) >= 1

\* ------------------------- the program with an index and cleanups after it
\* create_new_nodes builds the index of a cortex; the cleanups of the
\* cortices may follow it before the next encoding comes.
NextIndex ==
    \/ \E s \in Streams, encoding \in Encodings, learn \in BOOLEAN, slot \in 1..MaxIds :
          ReceiveSensoryInput(s, encoding, learn, slot)
    \/ \E s \in Streams : CreateNewNodes(s)
    \/ \E s \in Streams, delete_new_items \in BOOLEAN : K_Cleanup(s, delete_new_items)

SpecIndex == Init /\ [][NextIndex]_vars

\* C37 (the index stays aligned with the nodes): a receive_sensory_input call
\* of a cortex that has an index finds a node of db.nodes in the slot the
\* index answers with, and the index has a slot for each node of the cortex
\* and no more.
C37_IndexAligned ==
    [][\A s \in Streams, learn \in BOOLEAN :
          (Received(s, learn) /\ Len(node_managers[s].nn_index) > 0)
          => /\ Len(node_managers[s].nn_index) = Len(node_manager_to_nodes[s].list)
             /\ error' # "IndexError"
             /\ node_managers'[s].last_fired_node \in nodes']_vars

\* C38 (a nearest node exists): a receive_sensory_input call finds the cortex
\* with a node to search among, its own new node counted: the assertion of
\* _find_nearest_node does not fail.
C38_NearestNodeExists ==
    [][\A s \in Streams, learn \in BOOLEAN :
          Received(s, learn)
          => /\ Len(node_manager_to_nodes'[s].list) >= 1
             /\ error' # "AssertionError"]_vars

\* C39 (bootstrap is latched): finished_initial of a cortex, once set, stays
\* set; a receive_sensory_input call makes at most one node, with the
\* cluster of its name, and none when finished_initial was set before the
\* call, however few nodes the cortex has left; a call that returns with
\* INITIAL_NODES nodes or more in the cortex leaves finished_initial set.
C39_BootstrapLatched ==
    [][/\ \A s \in Streams :
             node_managers[s].finished_initial => node_managers'[s].finished_initial
       /\ \A s \in Streams, learn \in BOOLEAN :
             Received(s, learn)
             => /\ Cardinality(DOMAIN node_objs' \ DOMAIN node_objs) <= 1
                /\ DOMAIN cluster_objs' \ DOMAIN cluster_objs
                      = DOMAIN node_objs' \ DOMAIN node_objs
                /\ nodes' \ nodes = DOMAIN node_objs' \ DOMAIN node_objs
                /\ node_managers[s].finished_initial => DOMAIN node_objs' = DOMAIN node_objs
                /\ (error' = NoErr /\ Len(node_manager_to_nodes'[s].list) >= INITIAL_NODES)
                      => node_managers'[s].finished_initial]_vars

\* A cortex whose bootstrap is finished has lost every node in a cleanup and
\* has received an encoding since: the call has made no node and has ended
\* at the assertion of _find_nearest_node.
C39_Witness ==
    /\ error = "AssertionError"
    /\ maintenance >= 1
    /\ \E s \in Streams :
          /\ node_managers[s].finished_initial
          /\ Len(node_manager_to_nodes[s].list) = 0
          /\ received[s] > INITIAL_NODES

====
